---- MODULE Spec2Model ----
(***************************************************************************)
(* AI Debate Arena: the v2 multi-debater engine (MultiDebateEngine), the   *)
(* listener fan-out of both engines, the moderator's redirect decision,    *)
(* the start/stop handlers of DebateServerV2, and the original two-sided   *)
(* DebateEngine as DebateAudioServer creates and runs it.                  *)
(*                                                                         *)
(* A run_debate coroutine is a frame with a program counter; one RunStep   *)
(* resumes it at the await it is suspended on and runs it to the next await *)
(* that suspends (a language-model call or an asyncio.sleep).  Debaters are *)
(* the indices 0..N-1 of config.debaters, as in the source.                *)
(***************************************************************************)
EXTENDS Integers, Sequences, FiniteSets, TLC

\* ---------------------------------------------------------------- bounds
MaxDebaters == 3
MaxRoundsChecked == 2
MaxRuns == 2
MaxStops == 1
MaxListeners == 2
MaxEvents == 1
MaxDebates == 2
\* the last whole second of time.time() a creation request is served in
MaxSeconds == 2
MaxTurns == 2
MaxIdsChecked == 7
MaxRequestRuns == 1
MaxAudioTurns == 4

\* ------------------------------------------------------ program constants
MinDebaters == 2
FixedRedirectScore == 5
FallbackRelevanceScore == 8
FollowupChance == 3

DefaultMaxRounds == 3
MaxRoundsLimit == 10
MaxDebatersLimit == 6

None == -1
DebateId == "debate_1"

VARIABLES
    config,      \* MultiDebateEngine.config (DebateConfig)
    state,       \* MultiDebateEngine.state (DebateState)
    events,      \* messages broadcast on the debate's stream, in order
    tasks,       \* frames of the run_debate tasks created by _start_debate
    inRegistry,  \* debate_id in DebateServerV2.debates
    cleanups,    \* cleanup() tasks sleeping after a stop request
    stops,       \* stop requests served so far
    listeners,   \* engine.listeners, a list of callbacks
    notif,       \* the _notify call in progress: event, list position, status
    received,    \* per callback, the events it was invoked with
    lastCall,    \* per callback, the last of add_listener / remove_listener
    emitted,     \* number of events handed to _notify so far
    rel,         \* a relevance result and the redirect decision taken on it
    audio,       \* a DebateAudioServer debate: its status, DebateEngine, stream, tasks
    created,     \* DEBATE_TEMPLATES, the engines DebateServerV2 has created, its registry
    built,       \* the last DebateConfig(...) construction and its outcome
    llm,         \* an LLMArgumentGenerator and the outcome of its last call
    stream,      \* StreamManager.connections of one debate and a broadcast on it
    response     \* the last HTTP request served and the status it was answered with

vars == <<config, state, events, tasks, inRegistry, cleanups, stops,
          listeners, notif, received, lastCall, emitted, rel, audio, created,
          built, llm, stream, response>>

engineVars == <<config, state, events, tasks, inRegistry, cleanups, stops>>
notifyVars == <<listeners, notif, received, lastCall, emitted>>
libVars == <<built, llm, stream>>

\* ------------------------------------------------------------ data model

Strictness == {"relaxed", "moderate", "strict"}

\* models.py: ModeratorAction.action_type is a Literal of these five values
ActionTypes == {"introduce", "transition", "redirect", "summarize", "conclude"}

\* models.py: DebateConfig field constraints (debaters 2..6, max_rounds >= 1)
Configs ==
    [debaters : MinDebaters..MaxDebaters,
     max_rounds : 1..MaxRoundsChecked,
     allow_rebuttals : BOOLEAN,
     moderator_strictness : Strictness]

\* MultiDebateEngine.__init__: the DebateState of a new engine
InitialState ==
    [phase |-> "not_started", is_active |-> FALSE, current_round |-> 0,
     current_speaker_index |-> 0, turns |-> <<>>]

ModeratorActionValid_AnyString(action_type) == TRUE

\* pydantic validation of ModeratorAction(action_type=...): a value outside
\* the Literal raises ValidationError
ModeratorActionValid(action_type) == action_type \in ActionTypes


\* ------------------------------------------ events seen on the stream

\* _notify: event = {"event": event_type, "debate_id": self.debate_id, **data}
EngineEvent(event_type) ==
    [event |-> event_type, debate_id |-> DebateId,
     action_type |-> "", addressed_to |-> None, off_topic_warning |-> FALSE,
     speaker |-> None, round |-> None, phase |-> "", has_audio |-> FALSE,
     total_turns |-> None, rounds_completed |-> None, error |-> ""]

\* _stop_debate: streams.broadcast(debate_id, {"event": "debate_stopped"})
StoppedEvent == [EngineEvent("debate_stopped") EXCEPT !.debate_id = ""]

\* A machine is the engine as one running coroutine sees it: the shared
\* DebateState, the stream, and the coroutine's own frame.
NewFrame ==
    [pc |-> "start", i |-> 0, round |-> 0, target |-> None,
     fallback |-> FALSE, raised |-> FALSE, llm_succeeded |-> FALSE,
     audio_data |-> FALSE, history |-> <<>>]

\* _notify with the server's broadcast_event listener: the event reaches the stream
Notify(M, e) == [M EXCEPT !.ev = Append(@, e)]

Goto(M, pc) == [M EXCEPT !.fr.pc = pc]

N == config.debaters
R == config.max_rounds

\* run_debate, the finally block
RunDebateFinally(M) ==
    LET M1 == [M EXCEPT !.st.is_active = FALSE, !.st.phase = "finished"]
    IN  Goto(Notify(M1, [EngineEvent("debate_ended") EXCEPT
                            !.total_turns = Len(M1.st.turns),
                            !.rounds_completed = M1.st.current_round]), "done")

\* run_debate, an exception leaving a phase: the except block awaits the
\* debate_error notification with the state as the failing phase left it; the
\* finally block follows when that await returns (see RunToSuspension)
RunDebateExcept(M, msg) ==
    Goto(Notify([M EXCEPT !.fr.raised = TRUE],
                [EngineEvent("debate_error") EXCEPT !.error = msg]),
         "error_notified")

\* _moderator_speak: one moderator_action event, then a sleep
ModeratorSpeak(M, action_type, addressed_to, warning, nextpc) ==
    Goto(Notify(M, [EngineEvent("moderator_action") EXCEPT
                       !.action_type = action_type,
                       !.addressed_to = addressed_to,
                       !.off_topic_warning = warning]), nextpc)

\* ModeratorAction(action_type=..., ...) built by the engine, then spoken
BuildAndSpeak(M, action_type, addressed_to, nextpc) ==
    IF ModeratorActionValid(action_type)
    THEN ModeratorSpeak(M, action_type, addressed_to, FALSE, nextpc)
    ELSE RunDebateExcept(M, "validation error for ModeratorAction")

\* _introduce_speaker
IntroduceSpeaker(M, debater, nextpc) ==
    BuildAndSpeak(M, "introduce_speaker", debater, nextpc)

\* the speaker_change notification that precedes every generator call
SpeakerChange(M, debater, phase, round) ==
    Notify(M, [EngineEvent("speaker_change") EXCEPT
                  !.speaker = debater, !.phase = phase, !.round = round])

\* the turn _create_turn builds; audio_data (the frame's: whether
\* _generate_speech returned bytes, never so without a voice model) stays out
\* of the record but for the audio_generated flag.  With the turn go the
\* arguments its generator was called with: the target, the is_rebuttal flag
\* and, for a closing statement, the history (as positions in state.turns)
DebateTurnResult(M, debater, kind, round_number, turn_in_round, relevance) ==
    [debater |-> debater, kind |-> kind,
     round_number |-> round_number, turn_in_round |-> turn_in_round,
     fallback |-> M.fr.fallback, target |-> M.fr.target,
     is_rebuttal |-> (kind = "rebuttal") \/ (kind = "argument" /\ round_number > 1),
     relevance |-> relevance, audio_generated |-> M.fr.audio_data,
     history |-> M.fr.history]

CreateTurn_Replaces(M, debater, kind, round_number, turn_in_round, relevance, nextpc) ==
    LET turn == DebateTurnResult(M, debater, kind, round_number, turn_in_round, relevance)
        M1 == [M EXCEPT !.st.turns = <<turn>>]
    IN  Goto(Notify(M1, [EngineEvent("turn_completed") EXCEPT
                            !.speaker = debater, !.round = round_number,
                            !.phase = M1.st.phase,
                            !.has_audio = turn.audio_generated]), nextpc)

\* _create_turn: append the turn and notify turn_completed; the caller sleeps next
CreateTurn(M, debater, kind, round_number, turn_in_round, relevance, nextpc) ==
    LET turn == DebateTurnResult(M, debater, kind, round_number, turn_in_round, relevance)
        M1 == [M EXCEPT !.st.turns = Append(@, turn)]
    IN  Goto(Notify(M1, [EngineEvent("turn_completed") EXCEPT
                            !.speaker = debater, !.round = round_number,
                            !.phase = M1.st.phase,
                            !.has_audio = turn.audio_generated]), nextpc)

NoRelevance == [is_relevant |-> TRUE, relevance_score |-> None, failed |-> FALSE]


\* ------------------------------------------------ the phases of run_debate

\* _conclusion_phase, after which run_debate leaves the try block
ConclusionPhase(M) ==
    BuildAndSpeak([M EXCEPT !.st.phase = "conclusion"], "conclude", None,
                  "conclusion_spoken")

\* _closing_statements_phase: the loop over config.debaters, at index i
ClosingIter(M, i) ==
    IF i < N
    THEN IntroduceSpeaker([M EXCEPT !.fr.i = i], i, "close_introduced")
    ELSE ConclusionPhase(M)

\* _closing_statements_phase: entry
ClosingPhase(M) ==
    BuildAndSpeak([M EXCEPT !.st.phase = "closing"], "transition", None,
                  "closing_announced")

\* _rebuttal_phase: target_index = len(debaters) - i - 2, None when negative
RebuttalTarget(i) ==
    IF N - i - 2 >= 0 THEN N - i - 2 ELSE None

\* _rebuttal_phase: the loop over reversed(config.debaters), at position i
RebuttalIter(M, i) ==
    IF i < N
    THEN IntroduceSpeaker([M EXCEPT !.fr.i = i, !.fr.target = RebuttalTarget(i)],
                          N - 1 - i, "rebut_introduced")
    ELSE ClosingPhase(M)

\* _rebuttal_phase: entry
RebuttalPhase(M) ==
    LET M1 == [M EXCEPT !.st.phase = "rebuttals"]
        M2 == Notify(M1, [EngineEvent("phase_change") EXCEPT !.phase = "rebuttals"])
    IN  BuildAndSpeak(M2, "transition", None, "rebuttal_announced")

\* run_debate: what follows _main_debate_phase
AfterMainPhase(M) ==
    IF config.allow_rebuttals THEN RebuttalPhase(M) ELSE ClosingPhase(M)

\* _main_debate_phase: top of the loop over rounds
RoundIter(M, round_num) ==
    IF round_num <= R
    THEN LET M1 == [M EXCEPT !.st.current_round = round_num, !.fr.round = round_num]
             M2 == Notify(M1, [EngineEvent("round_start") EXCEPT !.round = round_num])
         IN  BuildAndSpeak(M2, "round_intro", None, "round_announced")
    ELSE AfterMainPhase(M)

\* _round_summary, then the next round
RoundSummary(M, round_num) ==
    IF Len(M.st.turns) < 2
       \/ ~\E k \in 1..Len(M.st.turns) : M.st.turns[k].round_number = round_num
    THEN RoundIter(M, round_num + 1)
    ELSE BuildAndSpeak(M, "round_summary", None, "round_summarized")

\* generate_closing: my_arguments = [t for t in debate_history if
\* t.debater_id == debater.id], as positions in the history; the ids of the
\* templates' and of create_custom_debate's debaters are distinct
MyArguments(turns, debater) ==
    SelectSeq([k \in 1..Len(turns) |-> k], LAMBDA k : turns[k].debater = debater)

\* _get_previous_speaker_name
GetPreviousSpeaker(st, current_index) ==
    IF current_index > 0 THEN current_index - 1
    ELSE IF Len(st.turns) > 0 THEN st.turns[Len(st.turns)].debater
    ELSE None

\* _main_debate_phase: the loop over config.debaters within a round, at index i
SpeakerIter(M, i) ==
    IF i < N
    THEN IntroduceSpeaker([M EXCEPT !.st.current_speaker_index = i, !.fr.i = i],
                          i, "main_introduced")
    ELSE IF M.fr.round < R
         THEN RoundSummary(M, M.fr.round)
         ELSE RoundIter(M, M.fr.round + 1)

\* _maybe_ask_followup (random.random() > 0.3 returns early), then _natural_pause
MaybeAskFollowup(M, roll) ==
    IF roll > FollowupChance
    THEN Goto(M, "main_paused")
    ELSE BuildAndSpeak(M, "followup", M.fr.i, "followup_spoken")

\* _main_debate_phase: "if not relevance.is_relevant or relevance.relevance_score < 0.5"
\* (scores are in tenths)
ShouldRedirect(relevance) ==
    \/ ~relevance.is_relevant
    \/ relevance.relevance_score < FixedRedirectScore

\* _opening_statements_phase: the loop over config.debaters, at index i
OpeningIter(M, i) ==
    IF i < N
    THEN IntroduceSpeaker([M EXCEPT !.fr.i = i], i, "open_introduced")
    ELSE RoundIter([M EXCEPT !.st.phase = "debate"], 1)


\* ------------------------------------- collaborator outcomes (the inputs)

Scores == {2, 4, 6, 8}
AllScores == 0..10
Rolls == {1, 6}

NoInput == [ok |-> TRUE, score |-> 0, relevant |-> TRUE, roll |-> 6]

\* a generator call returns an argument or raises
ArgumentInputs == {[NoInput EXCEPT !.ok = b] : b \in BOOLEAN}

\* moderator_agent.run returns a validated ModeratorAction or raises; the
\* action returned is taken to be of the kind the prompt asked for
ModerationInputs == {[NoInput EXCEPT !.ok = b] : b \in BOOLEAN}

RelevanceInputsOver(scores) ==
    {[NoInput EXCEPT !.ok = FALSE]}
    \cup {[NoInput EXCEPT !.score = s, !.relevant = b] : s \in scores, b \in BOOLEAN}

RollInputs == {[NoInput EXCEPT !.roll = r] : r \in Rolls}

Inputs(pc) ==
    CASE pc \in {"open_gen", "main_gen", "rebut_gen", "close_gen"} -> ArgumentInputs
      [] pc \in {"intro_gen", "redirect_gen"} -> ModerationInputs
      [] pc = "main_rel" ->
           {[x EXCEPT !.roll = r] : x \in RelevanceInputsOver(Scores), r \in Rolls}
      [] pc = "redirect_spoken" -> RollInputs
      [] OTHER -> {NoInput}

CheckTopicRelevance_FailClosed(o) ==
    IF o.ok
    THEN [is_relevant |-> o.relevant, relevance_score |-> o.score, failed |-> FALSE]
    ELSE [is_relevant |-> FALSE, relevance_score |-> 0, failed |-> TRUE]

\* check_topic_relevance: the checker's result, or the fail-open default
CheckTopicRelevance(o) ==
    IF o.ok
    THEN [is_relevant |-> o.relevant, relevance_score |-> o.score, failed |-> FALSE]
    ELSE [is_relevant |-> TRUE, relevance_score |-> FallbackRelevanceScore,
          failed |-> TRUE]

\* generate_moderation, then the caller's _moderator_speak
GenerateModerationAndSpeak(M, o, action_needed, addressed_to, warning, nextpc) ==
    IF o.ok
    THEN ModeratorSpeak(M, action_needed, addressed_to, warning, nextpc)
    ELSE IF ModeratorActionValid(action_needed)
         THEN ModeratorSpeak(M, action_needed, addressed_to, warning, nextpc)
         ELSE RunDebateExcept(M, "validation error for ModeratorAction")

\* a generator returned: remember whether the fallback argument was used
Generated(M, o) ==
    [M EXCEPT !.fr.fallback = ~o.ok,
              !.fr.llm_succeeded = M.fr.llm_succeeded \/ o.ok]

\* run_debate resumed at the await it is suspended on, run to the next one
Resume(M, o) ==
    LET pc == M.fr.pc
        i == M.fr.i
    IN
    CASE pc = "start" ->
           Goto([M EXCEPT !.st.is_active = TRUE, !.st.phase = "introduction"],
                "intro_gen")
      [] pc = "intro_gen" ->
           GenerateModerationAndSpeak(
               [M EXCEPT !.fr.llm_succeeded = M.fr.llm_succeeded \/ o.ok],
               o, "introduce", None, FALSE, "intro_spoken")
      [] pc = "intro_spoken" ->
           OpeningIter([M EXCEPT !.st.phase = "opening"], 0)
      [] pc = "open_introduced" ->
           Goto(SpeakerChange([M EXCEPT !.fr.target = None], i, "opening", None),
                "open_gen")
      [] pc = "open_gen" ->
           CreateTurn(Generated(M, o), i, "opening", 0, i, NoRelevance, "open_paused")
      [] pc = "open_paused" -> OpeningIter(M, i + 1)
      [] pc = "round_announced" -> SpeakerIter(M, 0)
      [] pc = "main_introduced" ->
           Goto(SpeakerChange([M EXCEPT !.fr.target = GetPreviousSpeaker(M.st, i)],
                              i, "", M.fr.round),
                "main_gen")
      [] pc = "main_gen" -> Goto(Generated(M, o), "main_rel")
      [] pc = "main_rel" ->
           LET relevance == CheckTopicRelevance(o)
               M1 == CreateTurn([M EXCEPT !.fr.llm_succeeded = M.fr.llm_succeeded \/ o.ok],
                                i, "argument", M.fr.round, i, relevance, "main_rel")
           IN  IF ShouldRedirect(relevance)
               THEN Goto(M1, "redirect_gen")
               ELSE MaybeAskFollowup(M1, o.roll)
      [] pc = "redirect_gen" ->
           GenerateModerationAndSpeak(
               [M EXCEPT !.fr.llm_succeeded = M.fr.llm_succeeded \/ o.ok],
               o, "redirect", i, TRUE, "redirect_spoken")
      [] pc = "redirect_spoken" -> MaybeAskFollowup(M, o.roll)
      [] pc = "followup_spoken" -> Goto(M, "main_paused")
      [] pc = "main_paused" -> SpeakerIter(M, i + 1)
      [] pc = "round_summarized" -> RoundIter(M, M.fr.round + 1)
      [] pc = "rebuttal_announced" -> RebuttalIter(M, 0)
      [] pc = "rebut_introduced" ->
           Goto(SpeakerChange(M, N - 1 - i, "rebuttal", None), "rebut_gen")
      [] pc = "rebut_gen" ->
           CreateTurn(Generated(M, o), N - 1 - i, "rebuttal", R + 1, i,
                      NoRelevance, "rebut_paused")
      [] pc = "rebut_paused" -> RebuttalIter(M, i + 1)
      [] pc = "closing_announced" -> ClosingIter(M, 0)
      [] pc = "close_introduced" ->
           Goto(SpeakerChange([M EXCEPT !.fr.target = None,
                                        !.fr.history = MyArguments(M.st.turns, i)],
                              i, "closing", None),
                "close_gen")
      [] pc = "close_gen" ->
           CreateTurn(Generated(M, o), i, "closing", R + 2, i, NoRelevance,
                      "close_paused")
      [] pc = "close_paused" -> ClosingIter(M, i + 1)
      [] pc = "conclusion_spoken" -> RunDebateFinally(M)
      [] pc = "error_notified" -> RunDebateFinally(M)
      [] OTHER -> M

\* _notify awaits its listeners.  The server's broadcast listener returns at
\* once unless a client's socket is slow, and then the run goes on in the same
\* step; everywhere but in the except block the state at the notification is
\* the state at the next await anyway.
RunToSuspension(M, o) ==
    LET M1 == Resume(M, o)
    IN  IF M1.fr.pc = "error_notified" THEN Resume(M1, NoInput) ELSE M1

\* ------------------------------------------------ listener fan-out

Callbacks == {"a", "b"}

Range(seq) == {seq[k] : k \in 1..Len(seq)}

Occurrences(seq, x) == Cardinality({k \in 1..Len(seq) : seq[k] = x})

NotifyIdle ==
    [active |-> FALSE, event |-> 0, idx |-> 0, outcome |-> "none",
     changed |-> FALSE, stayed |-> {}, raisers |-> {}]

NoCalls == [cb \in Callbacks |-> [op |-> "none", at |-> 0]]
NothingReceived == [cb \in Callbacks |-> <<>>]

\* list.remove(x): drops the first occurrence of x
RemoveFirst(seq, x) ==
    IF x \notin Range(seq) THEN seq
    ELSE LET k == CHOOSE j \in 1..Len(seq) :
                     seq[j] = x /\ \A m \in 1..(j - 1) : seq[m] # x
         IN  SubSeq(seq, 1, k - 1) \o SubSeq(seq, k + 1, Len(seq))

\* add_listener(callback), both engines
AddListener(cb) ==
    /\ Len(listeners) < MaxListeners
    /\ listeners' = Append(listeners, cb)
    /\ lastCall' = [lastCall EXCEPT ![cb] = [op |-> "add", at |-> emitted]]
    /\ notif' = [notif EXCEPT !.changed = TRUE]
    /\ UNCHANGED <<received, emitted>>
    /\ UNCHANGED <<engineVars, rel, audio, created, libVars, response>>

\* remove_listener(callback), both engines, called from another task while
\* the notification in progress (if any) is suspended on a listener
RemoveListener(cb) ==
    /\ listeners' = RemoveFirst(listeners, cb)
    /\ lastCall' = [lastCall EXCEPT ![cb] = [op |-> "remove", at |-> emitted]]
    /\ notif' = [notif EXCEPT !.changed = @ \/ cb \in Range(listeners),
                              !.stayed = @ \ {cb}]
    /\ UNCHANGED <<received, emitted>>
    /\ UNCHANGED <<engineVars, rel, audio, created, libVars, response>>

\* _notify / _notify_listeners is entered with a new event: the for loop's
\* iterator starts at position 0 of the live list
BeginNotify ==
    /\ ~notif.active
    /\ emitted < MaxEvents
    /\ emitted' = emitted + 1
    /\ notif' = [active |-> TRUE, event |-> emitted + 1, idx |-> 0,
                 outcome |-> "none", changed |-> FALSE,
                 stayed |-> Range(listeners), raisers |-> {}]
    /\ UNCHANGED <<listeners, received, lastCall>>
    /\ UNCHANGED <<engineVars, rel, audio, created, libVars, response>>

AfterListener_Propagates(nf, cb, result) ==
    IF result = "raise"
    THEN [nf EXCEPT !.active = FALSE, !.outcome = "raised", !.raisers = @ \cup {cb}]
    ELSE [nf EXCEPT !.idx = @ + 1]

\* the try/except around one listener call: an exception is logged and the
\* loop goes on to the next position
AfterListener(nf, cb, result) ==
    IF result = "raise"
    THEN [nf EXCEPT !.idx = @ + 1, !.raisers = @ \cup {cb}]
    ELSE [nf EXCEPT !.idx = @ + 1]

\* one iteration of the for loop: the iterator yields listeners[idx] and moves
\* on; the callback runs (and may itself call remove_listener), returns or raises
InvokeListener ==
    /\ notif.active
    /\ notif.idx < Len(listeners)
    /\ LET cb == listeners[notif.idx + 1]
       IN  \E result \in {"return", "raise"}, removes \in Callbacks \cup {"nothing"} :
              /\ received' = [received EXCEPT ![cb] = Append(@, notif.event)]
              /\ listeners' = IF removes = "nothing" THEN listeners
                              ELSE RemoveFirst(listeners, removes)
              /\ lastCall' = IF removes = "nothing" THEN lastCall
                             ELSE [lastCall EXCEPT ![removes] =
                                      [op |-> "remove", at |-> emitted]]
              /\ notif' = LET nf == AfterListener(notif, cb, result)
                          IN  IF removes = "nothing" THEN nf
                              ELSE [nf EXCEPT !.changed = @ \/ removes \in Range(listeners),
                                              !.stayed = @ \ {removes}]
    /\ UNCHANGED emitted
    /\ UNCHANGED <<engineVars, rel, audio, created, libVars, response>>

\* the iterator is exhausted: the notification returns to the phase
EndNotify ==
    /\ notif.active
    /\ notif.idx >= Len(listeners)
    /\ notif' = [notif EXCEPT !.active = FALSE, !.outcome = "returned"]
    /\ UNCHANGED <<listeners, received, lastCall, emitted>>
    /\ UNCHANGED <<engineVars, rel, audio, created, libVars, response>>

\* _create_turn called on the engine, for the debaters in turn as the phases'
\* loops do: the turn is appended and the fan-out of its turn_completed event
\* begins (InvokeListener and EndNotify carry it on)
CreateTurnCall(has_audio) ==
    /\ ~notif.active
    /\ Len(state.turns) < MaxTurns
    /\ LET debater == Len(state.turns) % N
           M == CreateTurn([st |-> state, ev |-> events,
                            fr |-> [NewFrame EXCEPT !.audio_data = has_audio]],
                           debater, "opening", 0, debater, NoRelevance, "open_paused")
       IN  /\ state' = M.st
           /\ events' = M.ev
    /\ emitted' = emitted + 1
    /\ notif' = [active |-> TRUE, event |-> emitted + 1, idx |-> 0,
                 outcome |-> "none", changed |-> FALSE,
                 stayed |-> Range(listeners), raisers |-> {}]
    /\ UNCHANGED <<listeners, received, lastCall>>
    /\ UNCHANGED <<config, tasks, inRegistry, cleanups, stops>>
    /\ UNCHANGED <<rel, audio, created, libVars, response>>

\* ---------------------------------------------- the redirect decision

RelIdle == [decided |-> FALSE, input |-> NoInput,
            relevance |-> NoRelevance, redirect |-> FALSE]

\* check_topic_relevance: threshold = {"relaxed": 0.3, "moderate": 0.5, "strict": 0.7}
Threshold(strictness) ==
    CASE strictness = "relaxed" -> 3
      [] strictness = "moderate" -> 5
      [] strictness = "strict" -> 7
      [] OTHER -> 5

\* the state of an engine whose first speaker of round 1 has just argued
MainPhaseState ==
    [InitialState EXCEPT !.phase = "debate", !.is_active = TRUE, !.current_round = 1]

\* _main_debate_phase, from the relevance check over the recording of the turn
\* to the redirect decision
DecideRedirect ==
    /\ ~rel.decided
    /\ LET relevance == CheckTopicRelevance(rel.input)
           M == CreateTurn([st |-> state, ev |-> events,
                            fr |-> [NewFrame EXCEPT !.round = 1]],
                           0, "argument", 1, 0, relevance, "main_rel")
       IN  /\ rel' = [rel EXCEPT !.decided = TRUE, !.relevance = relevance,
                                 !.redirect = ShouldRedirect(relevance)]
           /\ state' = M.st
           /\ events' = M.ev
    /\ UNCHANGED <<config, tasks, inRegistry, cleanups, stops>>
    /\ UNCHANGED <<notifyVars, audio, created, libVars, response>>

\* --------------------------- DebateEngine (v1) under DebateAudioServer

\* audio_server._create_debate: max_rounds = data.get("max_rounds", 3) goes to
\* DebateEngine as the request body gave it, an integer or any other JSON value
MaxRoundsValues ==
    {[is_int |-> TRUE, n |-> r] : r \in -1..MaxRoundsChecked}
    \cup {[is_int |-> FALSE, n |-> 0]}

\* the role lists the phases loop over
Roles == <<"pro", "con">>
RebuttalRoles == <<"con", "pro">>

\* DebateEngine.__init__
InitialEngineV1(max_rounds) ==
    [max_rounds |-> max_rounds, is_active |-> FALSE,
     current_phase |-> "introduction", current_round |-> 0, history |-> <<>>]

\* audio_server._create_debate: the active_debates entry and its engine
AudioDebate(max_rounds) ==
    [status |-> "created", engine |-> InitialEngineV1(max_rounds),
     events |-> <<>>, tasks |-> <<>>,
     registered |-> TRUE, cleanups |-> 0, stops |-> 0,
     joined |-> {}, streams |-> <<>>]

\* the dict a DebateEngine listener is called with (audio_listener passes it
\* on to broadcast_event); "debate_id" is a key of the debate_ended dict only
AudioEvent(event_type) ==
    [event |-> event_type, debate_id |-> "", agent |-> "", phase |-> "",
     has_audio |-> FALSE, total_turns |-> None, error |-> ""]

\* audio_data: whether generate_speech returns bytes for the turn being
\* created (never so without a voice model)
NewFrameV1 ==
    [pc |-> "start", i |-> 0, round_num |-> 0, raised |-> FALSE,
     audio_data |-> FALSE]

\* _notify_listeners: the keys of the "turn" dict of a turn_completed event
TurnKeys ==
    {"agent_id", "agent_name", "role", "statement", "timestamp", "phase",
     "is_rebuttal", "has_audio"}

\* AudioStreamManager.broadcast_audio: one audio_stream message carrying the
\* turn's audio, sent to the connections joined to the debate
BroadcastAudio(A, turn) ==
    [A EXCEPT !.streams = Append(@, [agent |-> turn.agent, phase |-> turn.phase,
                                     audio_data |-> turn.audio_data,
                                     to |-> A.joined])]

\* audio_listener, after its broadcast_event: the turn's audio is looked up in
\* engine.history and broadcast if the event's "turn" dict has the key
\* "audio_data" and says has_audio
AudioListenerAudio(A, keys, turn) ==
    IF "audio_data" \in keys /\ turn.audio_data
    THEN BroadcastAudio(A, turn)
    ELSE A

\* _notify_listeners / _notify_debate_end with the server's audio_listener
NotifyV1(A, e) == [A EXCEPT !.ev = Append(@, e)]

GotoV1(A, pc) == [A EXCEPT !.fr.pc = pc]

\* DebateEngine.create_turn: append to history, notify turn_completed
CreateTurnV1(A, agent, phase, is_rebuttal, nextpc) ==
    LET turn == [agent |-> agent, phase |-> phase, is_rebuttal |-> is_rebuttal,
                 audio_data |-> A.fr.audio_data]
        A1 == [A EXCEPT !.en.history = Append(@, turn)]
        A2 == NotifyV1(A1, [AudioEvent("turn_completed") EXCEPT
                               !.agent = agent, !.phase = phase,
                               !.has_audio = turn.audio_data])
    IN  GotoV1(AudioListenerAudio(A2, TurnKeys, turn), nextpc)

RunDebateFinallyV1_NoEndEvent(A) ==
    GotoV1(NotifyV1([A EXCEPT !.en.is_active = FALSE, !.status = "completed"],
                    AudioEvent("debate_completed")), "done")

\* DebateEngine.run_debate, the finally block; engine.run_debate() then returns
\* to the server's task, which sets the status and broadcasts debate_completed
RunDebateFinallyV1(A) ==
    LET A1 == [A EXCEPT !.en.is_active = FALSE]
        A2 == NotifyV1(A1, [AudioEvent("debate_ended") EXCEPT
                               !.debate_id = DebateId,
                               !.total_turns = Len(A1.en.history)])
        A3 == NotifyV1([A2 EXCEPT !.status = "completed"],
                       AudioEvent("debate_completed"))
    IN  GotoV1(A3, "done")

\* DebateEngine.run_debate, the except block: logger.error only, then finally
RunDebateExceptV1(A, msg) == RunDebateFinallyV1([A EXCEPT !.fr.raised = TRUE])

\* DebateEngine._conclusion_phase, after which run_debate leaves the try block
ConclusionPhaseV1(A) ==
    RunDebateFinallyV1(
        CreateTurnV1([A EXCEPT !.en.current_phase = "conclusion"],
                     "moderator", "conclusion", FALSE, "concluded"))

\* DebateEngine._closing_statements_phase: the loop over ["pro", "con"]
ClosingIterV1(A, i) ==
    IF i < Len(Roles)
    THEN GotoV1([A EXCEPT !.fr.i = i], "close_gen")
    ELSE ConclusionPhaseV1(A)

\* DebateEngine._rebuttals_phase: the loop over ["con", "pro"]
RebuttalIterV1(A, i) ==
    IF i < Len(RebuttalRoles)
    THEN GotoV1([A EXCEPT !.fr.i = i], "rebut_gen")
    ELSE ClosingIterV1([A EXCEPT !.en.current_phase = "closing_statements"], 0)

\* DebateEngine._main_arguments_phase: top of the loop over range(max_rounds)
RoundIterV1(A, round_num) ==
    IF round_num < A.en.max_rounds.n
    THEN GotoV1([A EXCEPT !.en.current_round = round_num + 1,
                          !.fr.round_num = round_num, !.fr.i = 0], "main_gen")
    ELSE RebuttalIterV1([A EXCEPT !.en.current_phase = "rebuttals"], 0)

\* DebateEngine._main_arguments_phase: range(self.max_rounds) raises TypeError
\* when max_rounds is not an integer
MainArgumentsPhaseV1(A) ==
    LET A1 == [A EXCEPT !.en.current_phase = "main_arguments"]
    IN  IF A1.en.max_rounds.is_int
        THEN RoundIterV1(A1, 0)
        ELSE RunDebateExceptV1(A1, "object cannot be interpreted as an integer")

\* the loop over the roles were the moderator to interject after every round
RoleIterV1_EveryRound(A, i) ==
    IF i < Len(Roles)
    THEN GotoV1([A EXCEPT !.fr.i = i], "main_gen")
    ELSE CreateTurnV1(A, "moderator", A.en.current_phase, FALSE, "interjected")

\* DebateEngine._main_arguments_phase: the loop over ["pro", "con"] in a round,
\* then _moderator_interjection after every second round
RoleIterV1(A, i) ==
    IF i < Len(Roles)
    THEN GotoV1([A EXCEPT !.fr.i = i], "main_gen")
    ELSE IF (A.fr.round_num + 1) % 2 = 0
         THEN CreateTurnV1(A, "moderator", A.en.current_phase, FALSE, "interjected")
         ELSE RoundIterV1(A, A.fr.round_num + 1)

\* DebateEngine._opening_statements_phase: the loop over ["pro", "con"]
OpeningIterV1(A, i) ==
    IF i < Len(Roles)
    THEN GotoV1([A EXCEPT !.fr.i = i], "open_gen")
    ELSE MainArgumentsPhaseV1(A)

\* DebateEngine.run_debate resumed at the await it is suspended on (a generator
\* of the LLM bridge or an asyncio.sleep), run to the next one
ResumeV1(A) ==
    LET pc == A.fr.pc
        i == A.fr.i
    IN
    CASE pc = "start" ->
           CreateTurnV1([A EXCEPT !.en.is_active = TRUE,
                                  !.en.current_phase = "introduction"],
                        "moderator", "introduction", FALSE, "intro_paused")
      [] pc = "intro_paused" ->
           OpeningIterV1([A EXCEPT !.en.current_phase = "opening_statements"], 0)
      [] pc = "open_gen" ->
           CreateTurnV1(A, Roles[i + 1], "opening_statements", FALSE, "open_paused")
      [] pc = "open_paused" -> OpeningIterV1(A, i + 1)
      [] pc = "main_gen" ->
           CreateTurnV1(A, Roles[i + 1], "main_arguments",
                        Roles[i + 1] = "con" /\ A.fr.round_num > 0, "main_paused")
      [] pc = "main_paused" -> RoleIterV1(A, i + 1)
      [] pc = "interjected" -> RoundIterV1(A, A.fr.round_num + 1)
      [] pc = "rebut_gen" ->
           CreateTurnV1(A, RebuttalRoles[i + 1], "rebuttals", TRUE, "rebut_paused")
      [] pc = "rebut_paused" -> RebuttalIterV1(A, i + 1)
      [] pc = "close_gen" ->
           CreateTurnV1(A, Roles[i + 1], "closing_statements", FALSE, "close_paused")
      [] pc = "close_paused" -> ClosingIterV1(A, i + 1)
      [] OTHER -> A

\* the audio server's debate as the run_debate task with frame fr sees it:
\* the engine, the debate's status, its stream and the connections joined
MachineV1(fr) ==
    [en |-> audio.engine, ev |-> audio.events, fr |-> fr,
     status |-> audio.status, joined |-> audio.joined, streams |-> audio.streams]

\* DebateAudioServer._start_debate: 400 while the status is "running"
AudioStartDebate ==
    /\ audio.status # "running"
    /\ Len(audio.tasks) < MaxRuns
    /\ audio' = [audio EXCEPT !.status = "running",
                              !.tasks = Append(@, NewFrameV1)]
    /\ UNCHANGED <<engineVars, notifyVars, rel, created, libVars, response>>

\* the event loop resumes the t-th task created by
\* DebateAudioServer._start_debate
AudioResumeTask(t) ==
    /\ t <= Len(audio.tasks)
    /\ audio.tasks[t].pc # "done"
    /\ LET A == ResumeV1(MachineV1(audio.tasks[t]))
       IN  audio' = [audio EXCEPT !.status = A.status, !.engine = A.en,
                                  !.events = A.ev, !.streams = A.streams,
                                  !.tasks[t] = A.fr]
    /\ UNCHANGED <<engineVars, notifyVars, rel, created, libVars, response>>

\* the event loop resumes one task created by DebateAudioServer._start_debate
AudioRunStep == \E t \in 1..Len(audio.tasks) : AudioResumeTask(t)

\* the same on an engine with a voice model: the task is resumed and the
\* speech synthesis of the turn it records next returns audio or None
AudioRunStepSpeech(speech) ==
    \E t \in 1..Len(audio.tasks) :
        /\ audio.tasks[t].pc # "done"
        /\ Len(audio.engine.history) < MaxAudioTurns
        /\ LET A == ResumeV1(MachineV1([audio.tasks[t] EXCEPT !.audio_data = speech]))
           IN  audio' = [audio EXCEPT !.status = A.status, !.engine = A.en,
                                      !.events = A.ev, !.streams = A.streams,
                                      !.tasks[t] = A.fr]
        /\ UNCHANGED <<engineVars, notifyVars, rel, created, libVars, response>>

\* ------------------------------------- debate creation on DebateServerV2

\* models.py: the keys of DEBATE_TEMPLATES
TemplateNames == {"god_existence", "ai_consciousness", "free_will"}

\* models.py: every template has three debaters, max_rounds=3, rebuttals
\* allowed (the default) and moderator_strictness="moderate"
TemplateConfig ==
    [debaters |-> 3, max_rounds |-> DefaultMaxRounds, allow_rebuttals |-> TRUE,
     moderator_strictness |-> "moderate"]

\* the module-level DEBATE_TEMPLATES dict, no engine constructed yet and an
\* empty DebateServerV2.debates, which maps a debate id to the engine (its
\* position in engines) registered under it; now is int(time.time())
NothingCreated ==
    [templates |-> [t \in TemplateNames |-> TemplateConfig], engines |-> <<>>,
     debates |-> [id \in {} |-> 0], now |-> 1]

\* f"debate_{int(time.time())}"
DebateIdAt(seconds) == "debate_" \o ToString(seconds)

\* MultiDebateEngine.__init__: self.config = config keeps a reference to the
\* object it is given; ref names the template whose object that is, or "own"
\* for a config object built for this engine alone; the debate id is made of
\* the second the engine is constructed in, and listeners starts empty
EngineOf(ref, own, seconds) ==
    [ref |-> ref, own |-> own, debate_id |-> DebateIdAt(seconds),
     listeners |-> <<>>]

\* engine.add_listener(broadcast_event); self.debates[engine.debate_id] =
\* engine: the closure broadcasts on the stream of engine.debate_id, and the
\* assignment replaces whatever the registry held under that id
Register(c, engine) ==
    [c EXCEPT
        !.engines = Append(@, [engine EXCEPT
                                  !.listeners = Append(@, engine.debate_id)]),
        !.debates = [id \in DOMAIN @ \cup {engine.debate_id} |->
                         IF id = engine.debate_id THEN Len(c.engines) + 1
                         ELSE @[id]]]

\* engine.config of the k-th engine created, read through its reference
ConfigOf(c, k) ==
    IF c.engines[k].ref = "own" THEN c.engines[k].own
    ELSE c.templates[c.engines[k].ref]

\* the max_rounds values a creation request carries: 0 stands for a request
\* without one (data.get("max_rounds") is None, "if max_rounds:" is false; the
\* custom handler then takes 3), the last one lies beyond DebateConfig's le=10
RoundsRequested == (0..MaxRoundsChecked) \cup {MaxRoundsLimit + 1}

\* the template names a creation request carries
TemplatesRequested == TemplateNames \cup {"no_such_template"}

\* no request served yet
NoResponse ==
    [server |-> "none", request |-> "none", debate_id |-> "", status |-> 0,
     parity |-> 0]

\* web.json_response(..., status=...): 200 unless the handler says otherwise;
\* parity tells an odd from an even number of requests served so far
RespondFrom(server, request, debate_id, status) ==
    response' = [server |-> server, request |-> request, debate_id |-> debate_id,
                 status |-> status, parity |-> (response.parity + 1) % 2]

Respond(request, debate_id, status) == RespondFrom("v2", request, debate_id, status)

\* pydantic validation of DebateConfig(debaters=..., max_rounds=...): debaters
\* has min_length=2, max_length=6 and max_rounds has ge=1, le=10; the model
\* declares no validator over the debaters' ids
DebateConfigAccepts(ids, max_rounds) ==
    /\ Len(ids) >= MinDebaters
    /\ Len(ids) <= MaxDebatersLimit
    /\ max_rounds >= 1
    /\ max_rounds <= MaxRoundsLimit

\* create_custom_debate: the i-th position becomes the debater "debater_i"
CustomIds(positions) == [i \in 1..positions |-> i - 1]

\* DebateServerV2._create_debate: from_template raises for an unknown name
\* (answered 500); it hands the template's own config object to the engine,
\* and a max_rounds override is assigned through it, unvalidated
CreateDebate(template_name, max_rounds) ==
    /\ Len(created.engines) < MaxDebates
    /\ IF template_name \notin TemplateNames
       THEN /\ Respond("create", "", 500)
            /\ UNCHANGED created
       ELSE /\ created' =
                 Register([created EXCEPT
                              !.templates =
                                  IF max_rounds # 0
                                  THEN [created.templates EXCEPT
                                          ![template_name].max_rounds = max_rounds]
                                  ELSE created.templates],
                          EngineOf(template_name, TemplateConfig, created.now))
            /\ Respond("create", DebateIdAt(created.now), 200)
    /\ UNCHANGED <<engineVars, notifyVars, rel, audio, libVars>>

\* the moderator_strictness values a custom creation request carries: "" for a
\* request without one (the handler then takes "moderate"), the last one is
\* none of DebateConfig's Literal
StrictnessRequested == Strictness \cup {"", "harsh"}

\* the numbers of positions a custom creation request carries; the last one
\* lies beyond DebateConfig's max_length=6
PositionsRequested == (0..MaxDebaters) \cup {MaxDebatersLimit + 1}

\* _create_custom_debate were an engine registered before DebateConfig
\* validates the request
CreateCustomDebate_RegisterFirst(topic, positions, max_rounds, moderator_strictness) ==
    /\ Len(created.engines) < MaxDebates
    /\ LET rounds == IF max_rounds = 0 THEN DefaultMaxRounds ELSE max_rounds
           strictness == IF moderator_strictness = "" THEN "moderate"
                         ELSE moderator_strictness
           accepted == /\ DebateConfigAccepts(CustomIds(positions), rounds)
                       /\ strictness \in Strictness
       IN  IF ~topic \/ positions < 2
           THEN /\ Respond("create_custom", "", 400)
                /\ UNCHANGED created
           ELSE /\ created' =
                     Register(created, EngineOf("own",
                         [debaters |-> positions, max_rounds |-> rounds,
                          allow_rebuttals |-> TRUE,
                          moderator_strictness |-> strictness], created.now))
                /\ IF accepted
                   THEN Respond("create_custom", DebateIdAt(created.now), 200)
                   ELSE Respond("create_custom", "", 500)
    /\ UNCHANGED <<engineVars, notifyVars, rel, audio, libVars>>

\* DebateServerV2._create_custom_debate: a request without a topic and one
\* with fewer than two positions answer 400; create_custom_debate builds a new
\* DebateConfig from the request, and a request DebateConfig rejects (its
\* debaters, max_rounds or moderator_strictness) answers 500; only then are
\* the listener added and the engine registered
CreateCustomDebate(topic, positions, max_rounds, moderator_strictness) ==
    /\ Len(created.engines) < MaxDebates
    /\ LET rounds == IF max_rounds = 0 THEN DefaultMaxRounds ELSE max_rounds
           strictness == IF moderator_strictness = "" THEN "moderate"
                         ELSE moderator_strictness
       IN  IF ~topic \/ positions < 2
           THEN /\ Respond("create_custom", "", 400)
                /\ UNCHANGED created
           ELSE IF \/ ~DebateConfigAccepts(CustomIds(positions), rounds)
                   \/ strictness \notin Strictness
           THEN /\ Respond("create_custom", "", 500)
                /\ UNCHANGED created
           ELSE /\ created' =
                     Register(created, EngineOf("own",
                         [debaters |-> positions, max_rounds |-> rounds,
                          allow_rebuttals |-> TRUE,
                          moderator_strictness |-> strictness], created.now))
                /\ Respond("create_custom", DebateIdAt(created.now), 200)
    /\ UNCHANGED <<engineVars, notifyVars, rel, audio, libVars>>

\* time.time() passes into the next whole second between two requests
Tick ==
    /\ created.now < MaxSeconds
    /\ created' = [created EXCEPT !.now = @ + 1]
    /\ UNCHANGED <<engineVars, notifyVars, rel, audio, libVars, response>>

\* ------------------------------------------- DebateConfig construction

\* the ids the debaters of a constructed config carry
DebaterIds == {"debater_0", "debater_1", "debater_2"}

\* the lists of debater ids of length 0..MaxIdsChecked
IdLists == UNION {[1..n -> DebaterIds] : n \in 0..MaxIdsChecked}

\* no DebateConfig constructed yet
NothingBuilt == [ids |-> <<>>, max_rounds |-> 0, outcome |-> "none"]

\* DebateConfig(topic=..., debaters=[...], max_rounds=...) is called: pydantic
\* returns the object or raises ValidationError
ConstructDebateConfig ==
    /\ built.outcome = "none"
    /\ built' = [built EXCEPT !.outcome =
                    IF DebateConfigAccepts(built.ids, built.max_rounds)
                    THEN "accepted" ELSE "rejected"]
    /\ UNCHANGED <<engineVars, notifyVars, rel, audio, created, llm, stream, response>>

\* ------------------------------------------------- LLMArgumentGenerator

\* os.getenv('GROQ_API_KEY') / os.getenv('GOOGLE_API_KEY'): None when the
\* variable is not set, else its value, which may be the empty string
ApiKeys == {"unset", "", "key"}

\* the truth value Python gives a key in "if self.groq_api_key:"
Truthy(key) == key # "unset" /\ key # ""

DetermineProvider_GoogleFirst(groq_api_key, google_api_key) ==
    IF Truthy(google_api_key) THEN "google"
    ELSE IF Truthy(groq_api_key) THEN "groq"
    ELSE "ollama"

\* _determine_provider
DetermineProvider(groq_api_key, google_api_key) ==
    IF Truthy(groq_api_key) THEN "groq"
    ELSE IF Truthy(google_api_key) THEN "google"
    ELSE "ollama"

\* what a provider call can come to: a 200 answer with text or with empty
\* text, an answer with an error status, no connection, a timeout
ProviderOutcomes ==
    {"text", "empty_text", "error_status", "connection_failure", "timeout"}

\* a prompt, as far as _fallback_response looks at it: whether it contains
\* "opening statement", "rebuttal", "closing" (lower-cased) and "pro"
Mentions == [opening_statement : BOOLEAN, rebuttal : BOOLEAN,
             closing : BOOLEAN, pro : BOOLEAN]

NoMentions == [opening_statement |-> FALSE, rebuttal |-> FALSE,
               closing |-> FALSE, pro |-> FALSE]

\* the prompt templates of the four generate_* methods around the caller's
\* texts m: "professional" and "approach" contain "pro"
OpeningPrompt(m) == [m EXCEPT !.opening_statement = TRUE, !.pro = TRUE]
ArgumentPrompt(m) == [m EXCEPT !.pro = TRUE]
RebuttalPrompt(m) == [m EXCEPT !.rebuttal = TRUE, !.pro = TRUE]
ClosingPrompt(m) == [m EXCEPT !.closing = TRUE]

Methods == {"generate_opening_statement", "generate_argument",
            "generate_rebuttal", "generate_closing_statement"}

PromptOf(method, m) ==
    CASE method = "generate_opening_statement" -> OpeningPrompt(m)
      [] method = "generate_argument" -> ArgumentPrompt(m)
      [] method = "generate_rebuttal" -> RebuttalPrompt(m)
      [] OTHER -> ClosingPrompt(m)

\* _fallback_response: one of seven fixed sentences, chosen by the prompt
FallbackResponse(prompt) ==
    IF prompt.opening_statement
    THEN (IF prompt.pro THEN "I stand firmly in support"
          ELSE "We must carefully examine")
    ELSE IF prompt.rebuttal THEN "While my opponent makes interesting points"
    ELSE IF prompt.closing
    THEN (IF prompt.pro THEN "The arguments presented today"
          ELSE "The risks and concerns raised today")
    ELSE (IF prompt.pro THEN "Research and real-world evidence"
          ELSE "We must consider the broader implications")

\* what a _generate_* coroutine comes to: a string returned or an exception
Returned(text) == [raised |-> FALSE, text |-> text]
Raised == [raised |-> TRUE, text |-> ""]

\* _generate_groq: the stripped content of a 200 answer, else an exception
GenerateGroq(prompt, outcome) ==
    CASE outcome = "text" -> Returned("generated text")
      [] outcome = "empty_text" -> Returned("")
      [] OTHER -> Raised

\* _generate_google: the stripped text of a 200 answer, else an exception
GenerateGoogle(prompt, outcome) ==
    CASE outcome = "text" -> Returned("generated text")
      [] outcome = "empty_text" -> Returned("")
      [] OTHER -> Raised

\* _generate_ollama: "response_text if response_text else fallback" on a 200
\* answer; its own except clauses turn every failure into the fallback
GenerateOllama(prompt, outcome) ==
    CASE outcome = "text" -> Returned("generated text")
      [] OTHER -> Returned(FallbackResponse(prompt))

\* _generate: dispatch on the provider, any exception becomes the fallback
GenerateText(provider, prompt, outcome) ==
    LET result == CASE provider = "groq" -> GenerateGroq(prompt, outcome)
                    [] provider = "google" -> GenerateGoogle(prompt, outcome)
                    [] OTHER -> GenerateOllama(prompt, outcome)
    IN  IF result.raised THEN Returned(FallbackResponse(prompt)) ELSE result

NoCall == [method |-> "none", position |-> "none", prompt |-> NoMentions,
           outcome |-> "none", raised |-> FALSE, text |-> ""]

\* DebateLLMBridge: position = "pro" if agent.role.value == "pro" else "con"
Positions == {"pro", "con"}

\* the caller's texts as the f-string receives them: m for agent_name,
\* agent_personality, agent_style, topic and the context, and the position,
\* which every template interpolates
CallerTexts(position, m) == [m EXCEPT !.pro = @ \/ position = "pro"]

\* before LLMArgumentGenerator() is called
NoGenerator == [groq_api_key |-> "unset", google_api_key |-> "unset",
                provider |-> "none", last |-> NoCall]

\* LLMArgumentGenerator.__init__: the keys were read from the environment,
\* the provider is determined once
ConstructGenerator ==
    /\ llm.provider = "none"
    /\ llm' = [llm EXCEPT !.provider =
                  DetermineProvider(llm.groq_api_key, llm.google_api_key)]
    /\ UNCHANGED <<engineVars, notifyVars, rel, audio, created, built, stream, response>>

\* one of generate_opening_statement, generate_argument, generate_rebuttal,
\* generate_closing_statement is awaited: the prompt is built and _generate
\* returns or raises
Generate(method, position, m, outcome) ==
    /\ llm.provider # "none"
    /\ LET prompt == PromptOf(method, CallerTexts(position, m))
           result == GenerateText(llm.provider, prompt, outcome)
       IN  llm' = [llm EXCEPT !.last =
                      [method |-> method, position |-> position,
                       prompt |-> prompt, outcome |-> outcome,
                       raised |-> result.raised, text |-> result.text]]
    /\ UNCHANGED <<engineVars, notifyVars, rel, audio, created, built, stream, response>>

\* ----------------------------------------------- server and engine actions

\* DebateServerV2._start_debate: 404 / 400 leave everything as it is
StartDebate ==
    /\ inRegistry
    /\ ~state.is_active
    /\ Len(tasks) < MaxRuns
    /\ tasks' = Append(tasks, NewFrame)
    /\ UNCHANGED <<config, state, events, inRegistry, cleanups, stops>>
    /\ UNCHANGED <<notifyVars, rel, audio, created, libVars, response>>

\* DebateServerV2._stop_debate
StopDebate ==
    /\ inRegistry
    /\ stops < MaxStops
    /\ state' = [state EXCEPT !.is_active = FALSE]
    /\ events' = Append(events, StoppedEvent)
    /\ cleanups' = cleanups + 1
    /\ stops' = stops + 1
    /\ UNCHANGED <<config, tasks, inRegistry>>
    /\ UNCHANGED <<notifyVars, rel, audio, created, libVars, response>>

\* the cleanup() task of _stop_debate, after its sleep
Cleanup ==
    /\ cleanups > 0
    /\ cleanups' = cleanups - 1
    /\ inRegistry' = FALSE
    /\ UNCHANGED <<config, state, events, tasks, stops>>
    /\ UNCHANGED <<notifyVars, rel, audio, created, libVars, response>>

\* the event loop resumes the t-th run_debate task created
ResumeTask(t) ==
    /\ t <= Len(tasks)
    /\ tasks[t].pc # "done"
    /\ \E o \in Inputs(tasks[t].pc) :
          LET M == RunToSuspension([st |-> state, ev |-> events, fr |-> tasks[t]], o)
          IN  /\ state' = M.st
              /\ events' = M.ev
              /\ tasks' = [tasks EXCEPT ![t] = M.fr]
    /\ UNCHANGED <<config, inRegistry, cleanups, stops>>
    /\ UNCHANGED <<notifyVars, rel, audio, created, libVars, response>>

\* the event loop resumes one run_debate task
RunStep == \E t \in 1..Len(tasks) : ResumeTask(t)

\* the same with a listener that suspends the debate_error notification: the
\* run is resumed in the except block in a step of its own
RunStepSlowListener ==
    \E t \in 1..Len(tasks) :
        /\ tasks[t].pc # "done"
        /\ \E o \in Inputs(tasks[t].pc) :
              LET M == Resume([st |-> state, ev |-> events, fr |-> tasks[t]], o)
              IN  /\ state' = M.st
                  /\ events' = M.ev
                  /\ tasks' = [tasks EXCEPT ![t] = M.fr]
        /\ UNCHANGED <<config, inRegistry, cleanups, stops>>
        /\ UNCHANGED <<notifyVars, rel, audio, created, libVars, response>>

\* ------------------------------- request handlers, by debate id

\* The handlers of this section answer on the server that is running:
\* response.server, "v2" for DebateServerV2 (main_v2.py) and "audio" for
\* DebateAudioServer (main.py), is set when the server starts.

\* the debate ids requests carry: the debate's and one no debate ever had
RequestIds == {DebateId, "debate_0"}

\* the keys of DebateServerV2.debates
Debates == IF inRegistry THEN {DebateId} ELSE {}

\* the keys of DebateAudioServer.active_debates
ActiveDebates == IF audio.registered THEN {DebateId} ELSE {}

\* DebateServerV2._get_debate: 404 or the engine's state, read only
HandleGetDebate(debate_id) ==
    /\ response.server = "v2"
    /\ IF debate_id \notin Debates
       THEN Respond("status", debate_id, 404)
       ELSE Respond("status", debate_id, 200)
    /\ UNCHANGED <<engineVars, notifyVars, rel, audio, created, libVars>>

\* DebateServerV2._get_transcript: 404 or transcript and statistics, read only
HandleGetTranscript(debate_id) ==
    /\ response.server = "v2"
    /\ IF debate_id \notin Debates
       THEN Respond("transcript", debate_id, 404)
       ELSE Respond("transcript", debate_id, 200)
    /\ UNCHANGED <<engineVars, notifyVars, rel, audio, created, libVars>>

\* DebateServerV2._start_debate: 404, 400 while is_active, else a new
\* run_debate task
HandleStartDebate(debate_id) ==
    /\ response.server = "v2"
    /\ IF debate_id \notin Debates
       THEN /\ Respond("start", debate_id, 404)
            /\ UNCHANGED tasks
       ELSE IF state.is_active
       THEN /\ Respond("start", debate_id, 400)
            /\ UNCHANGED tasks
       ELSE /\ Len(tasks) < MaxRequestRuns
            /\ tasks' = Append(tasks, NewFrame)
            /\ Respond("start", debate_id, 200)
    /\ UNCHANGED <<config, state, events, inRegistry, cleanups, stops>>
    /\ UNCHANGED <<notifyVars, rel, audio, created, libVars>>

HandleStopDebate_NoLookup(debate_id) ==
    /\ response.server = "v2"
    /\ stops < MaxStops
    /\ state' = [state EXCEPT !.is_active = FALSE]
    /\ events' = Append(events, StoppedEvent)
    /\ cleanups' = cleanups + 1
    /\ stops' = stops + 1
    /\ Respond("stop", debate_id, 200)
    /\ UNCHANGED <<config, tasks, inRegistry>>
    /\ UNCHANGED <<notifyVars, rel, audio, created, libVars>>

\* DebateServerV2._stop_debate: 404, else is_active is cleared,
\* debate_stopped is broadcast and a cleanup task is created
HandleStopDebate(debate_id) ==
    /\ response.server = "v2"
    /\ IF debate_id \notin Debates
       THEN /\ Respond("stop", debate_id, 404)
            /\ UNCHANGED <<state, events, cleanups, stops>>
       ELSE /\ stops < MaxStops
            /\ state' = [state EXCEPT !.is_active = FALSE]
            /\ events' = Append(events, StoppedEvent)
            /\ cleanups' = cleanups + 1
            /\ stops' = stops + 1
            /\ Respond("stop", debate_id, 200)
    /\ UNCHANGED <<config, tasks, inRegistry>>
    /\ UNCHANGED <<notifyVars, rel, audio, created, libVars>>

\* DebateAudioServer._get_debate_status: 404 or the debate's status, read only
AudioHandleGetDebateStatus(debate_id) ==
    /\ response.server = "audio"
    /\ IF debate_id \notin ActiveDebates
       THEN RespondFrom("audio", "status", debate_id, 404)
       ELSE RespondFrom("audio", "status", debate_id, 200)
    /\ UNCHANGED <<engineVars, notifyVars, rel, audio, created, libVars>>

\* DebateAudioServer._start_debate: 404, 400 while the status is "running",
\* else the status becomes "running" and a task is created
AudioHandleStartDebate(debate_id) ==
    /\ response.server = "audio"
    /\ IF debate_id \notin ActiveDebates
       THEN /\ RespondFrom("audio", "start", debate_id, 404)
            /\ UNCHANGED audio
       ELSE IF audio.status = "running"
       THEN /\ RespondFrom("audio", "start", debate_id, 400)
            /\ UNCHANGED audio
       ELSE /\ Len(audio.tasks) < MaxRequestRuns
            /\ audio' = [audio EXCEPT !.status = "running",
                                      !.tasks = Append(@, NewFrameV1)]
            /\ RespondFrom("audio", "start", debate_id, 200)
    /\ UNCHANGED <<engineVars, notifyVars, rel, created, libVars>>

\* DebateAudioServer._stop_debate: the status becomes "stopped",
\* debate_stopped is broadcast and a cleanup task is created; else 404
AudioHandleStopDebate(debate_id) ==
    /\ response.server = "audio"
    /\ IF debate_id \in ActiveDebates
       THEN /\ audio.stops < MaxStops
            /\ audio' = [audio EXCEPT !.status = "stopped",
                                      !.events = Append(@, AudioEvent("debate_stopped")),
                                      !.cleanups = @ + 1,
                                      !.stops = @ + 1]
            /\ RespondFrom("audio", "stop", debate_id, 200)
       ELSE /\ RespondFrom("audio", "stop", debate_id, 404)
            /\ UNCHANGED audio
    /\ UNCHANGED <<engineVars, notifyVars, rel, created, libVars>>

\* DebateEngine.run_debate resumed again and again until it has returned
RECURSIVE RunToEndV1(_)
RunToEndV1(A) == IF A.fr.pc = "done" THEN A ELSE RunToEndV1(ResumeV1(A))

\* the event loop runs one task created by DebateAudioServer._start_debate
\* to its end, no request being served in between
AudioRunTask ==
    \E t \in 1..Len(audio.tasks) :
        /\ audio.tasks[t].pc # "done"
        /\ LET A == RunToEndV1(MachineV1(audio.tasks[t]))
           IN  audio' = [audio EXCEPT !.status = A.status, !.engine = A.en,
                                      !.events = A.ev, !.streams = A.streams,
                                      !.tasks[t] = A.fr]
        /\ UNCHANGED <<engineVars, notifyVars, rel, created, libVars, response>>

\* the cleanup() task of DebateAudioServer._stop_debate, after its sleep
AudioCleanup ==
    /\ audio.cleanups > 0
    /\ audio' = [audio EXCEPT !.cleanups = @ - 1, !.registered = FALSE]
    /\ UNCHANGED <<engineVars, notifyVars, rel, created, libVars, response>>

\* ---------------------------------------------------------- StreamManager

\* the websockets of the clients of a server
Sockets == {"ws1", "ws2"}

\* the websockets that join the debate whose stream is followed
StreamSockets == Sockets \cup {"ws3"}

\* StreamManager.__init__: no debate id in connections, no broadcast made yet.
\* known: the debate id is a key of connections; connections: the WeakSet
\* under it; outcome: of the broadcast call ("running" while it is suspended
\* on a send); used: the size the set iterator was created at; visited: the
\* websockets it has yielded; sending: the one whose send_str is awaited;
\* dead: the local list; delivered: the ones whose send_str returned; stayed:
\* the ones joined when the broadcast began that have not left since
StreamIdle ==
    [known |-> FALSE, connections |-> {}, outcome |-> "none", used |-> 0,
     visited |-> {}, sending |-> "none", dead |-> {}, delivered |-> {},
     stayed |-> {}]

\* StreamManager.add, called by the websocket handler for a join message
StreamAdd(ws) ==
    /\ stream' = [stream EXCEPT !.known = TRUE, !.connections = @ \cup {ws}]
    /\ UNCHANGED <<engineVars, notifyVars, rel, audio, created, built, llm,
                   response>>

\* StreamManager.remove, called in the finally block of the websocket handler
\* of a connection that had joined
StreamRemove(ws) ==
    /\ ws \in stream.connections \/ ws \in stream.dead
    /\ stream' = [stream EXCEPT !.connections = @ \ {ws}, !.stayed = @ \ {ws}]
    /\ UNCHANGED <<engineVars, notifyVars, rel, audio, created, built, llm,
                   response>>

\* "for ws in self.connections[debate_id]", one step of the loop header: the
\* set iterator raises RuntimeError when the set's size is not the one it was
\* created at, and the exception leaves broadcast; else it yields a websocket
\* it has not yielded (the send is then awaited), or it is exhausted and the
\* dead ones are removed. A websocket added since the iterator was created
\* is yielded or not, depending on where the hash table holds it
StreamIterNext(S) ==
    IF Cardinality(S.connections) # S.used
    THEN stream' = [S EXCEPT !.outcome = "raised", !.sending = "none"]
    ELSE \/ \E ws \in S.connections \ S.visited :
              stream' = [S EXCEPT !.sending = ws, !.visited = @ \cup {ws}]
         \/ /\ (S.stayed \cap S.connections) \subseteq S.visited
            /\ stream' = [S EXCEPT !.outcome = "returned", !.sending = "none",
                                   !.connections = @ \ S.dead]

\* StreamManager.broadcast up to its first await: it returns at once for a
\* debate id nobody has joined, else starts the loop over the connections
StreamBroadcast ==
    /\ stream.outcome # "running"
    /\ IF ~stream.known
       THEN stream' = [stream EXCEPT !.outcome = "returned", !.delivered = {},
                                     !.dead = {}, !.stayed = {}, !.visited = {}]
       ELSE StreamIterNext([stream EXCEPT
                               !.outcome = "running",
                               !.used = Cardinality(stream.connections),
                               !.visited = {}, !.dead = {}, !.delivered = {},
                               !.stayed = stream.connections])
    /\ UNCHANGED <<engineVars, notifyVars, rel, audio, created, built, llm,
                   response>>

\* the awaited ws.send_str returns (ok) or raises, and the loop goes on
StreamSendDone(ok) ==
    /\ stream.outcome = "running"
    /\ StreamIterNext(IF ok
                      THEN [stream EXCEPT !.delivered = @ \cup {stream.sending}]
                      ELSE [stream EXCEPT !.dead = @ \cup {stream.sending}])
    /\ UNCHANGED <<engineVars, notifyVars, rel, audio, created, built, llm,
                   response>>

\* ------------------------------------------------------- specifications

\* nothing constructed, generated or requested yet
LibInit ==
    /\ built = NothingBuilt
    /\ llm = NoGenerator
    /\ stream = StreamIdle
    /\ response = NoResponse

\* MultiDebateEngine.__init__; the engine only hands moderator_strictness on
\* to its collaborators, so the runs are explored under the default one
EngineInit ==
    /\ config \in {c \in Configs : c.moderator_strictness = "moderate"}
    /\ state = InitialState
    /\ events = <<>>
    /\ tasks = <<>>
    /\ inRegistry = TRUE
    /\ cleanups = 0
    /\ stops = 0

NotifyInit ==
    /\ listeners = <<>>
    /\ notif = NotifyIdle
    /\ received = NothingReceived
    /\ lastCall = NoCalls
    /\ emitted = 0

\* one debate created on the server, then start / stop requests and its runs
Init ==
    /\ EngineInit
    /\ NotifyInit
    /\ rel = RelIdle
    /\ audio = AudioDebate([is_int |-> TRUE, n |-> DefaultMaxRounds])
    /\ created = NothingCreated
    /\ LibInit

Next == StartDebate \/ StopDebate \/ Cleanup \/ RunStep

Spec == Init /\ [][Next]_vars

\* one debate, started and run, with a listener on which the debate_error
\* notification suspends
NextSlowListener == StartDebate \/ RunStepSlowListener

SpecSlowListener == Init /\ [][NextSlowListener]_vars

\* an engine's listener list under add / remove calls and notifications
InitNotify ==
    /\ EngineInit
    /\ config.debaters = MinDebaters
    /\ config.max_rounds = 1
    /\ config.allow_rebuttals
    /\ NotifyInit
    /\ rel = RelIdle
    /\ audio = AudioDebate([is_int |-> TRUE, n |-> DefaultMaxRounds])
    /\ created = NothingCreated
    /\ LibInit

NextNotify ==
    \/ \E cb \in Callbacks : AddListener(cb)
    \/ \E cb \in Callbacks : RemoveListener(cb)
    \/ BeginNotify
    \/ InvokeListener
    \/ EndNotify

SpecNotify == InitNotify /\ [][NextNotify]_vars

\* an engine on which add_listener("a") and add_listener("b") were called
\* before anything was emitted
InitTurns ==
    /\ EngineInit
    /\ config.debaters = MinDebaters
    /\ config.max_rounds = 1
    /\ config.allow_rebuttals
    /\ listeners = <<"a", "b">>
    /\ notif = NotifyIdle
    /\ received = NothingReceived
    /\ lastCall = [cb \in Callbacks |-> [op |-> "add", at |-> 0]]
    /\ emitted = 0
    /\ rel = RelIdle
    /\ audio = AudioDebate([is_int |-> TRUE, n |-> DefaultMaxRounds])
    /\ created = NothingCreated
    /\ LibInit

\* _create_turn called on that engine, turn after turn, each turn_completed
\* delivered to the listeners, which may remove listeners from their callback
NextTurns ==
    \/ \E has_audio \in BOOLEAN : CreateTurnCall(has_audio)
    \/ InvokeListener
    \/ EndNotify

SpecTurns == InitTurns /\ [][NextTurns]_vars

\* the redirect decision as a function of strictness and relevance result
InitRedirect ==
    /\ config \in Configs
    /\ state = MainPhaseState
    /\ events = <<>>
    /\ tasks = <<>>
    /\ inRegistry = TRUE
    /\ cleanups = 0
    /\ stops = 0
    /\ NotifyInit
    /\ \E o \in RelevanceInputsOver(AllScores) : rel = [RelIdle EXCEPT !.input = o]
    /\ audio = AudioDebate([is_int |-> TRUE, n |-> DefaultMaxRounds])
    /\ created = NothingCreated
    /\ LibInit

NextRedirect == DecideRedirect

SpecRedirect == InitRedirect /\ [][NextRedirect]_vars

\* one debate created on the audio server with the max_rounds of the request,
\* started (and started again once a run has completed) and run; stop requests,
\* which leave the engine untouched, are not part of this specification
InitAudio ==
    /\ EngineInit
    /\ config.debaters = MinDebaters
    /\ config.max_rounds = 1
    /\ config.allow_rebuttals
    /\ NotifyInit
    /\ rel = RelIdle
    /\ \E m \in MaxRoundsValues : audio = AudioDebate(m)
    /\ created = NothingCreated
    /\ LibInit

NextAudio == AudioStartDebate \/ AudioRunStep

SpecAudio == InitAudio /\ [][NextAudio]_vars

\* one debate created on the audio server, whose engine has a voice model,
\* with any of the clients joined to it; the debate is started and run
InitAudioStream ==
    /\ EngineInit
    /\ config.debaters = MinDebaters
    /\ config.max_rounds = 1
    /\ config.allow_rebuttals
    /\ NotifyInit
    /\ rel = RelIdle
    /\ \E joined \in SUBSET Sockets :
           audio = [AudioDebate([is_int |-> TRUE, n |-> DefaultMaxRounds])
                       EXCEPT !.joined = joined]
    /\ created = NothingCreated
    /\ LibInit

NextAudioStream ==
    \/ AudioStartDebate
    \/ \E speech \in BOOLEAN : AudioRunStepSpeech(speech)

SpecAudioStream == InitAudioStream /\ [][NextAudioStream]_vars

\* the server's two creation handlers, from the templates as models.py builds them
InitCreate ==
    /\ EngineInit
    /\ config.debaters = MinDebaters
    /\ config.max_rounds = 1
    /\ config.allow_rebuttals
    /\ NotifyInit
    /\ rel = RelIdle
    /\ audio = AudioDebate([is_int |-> TRUE, n |-> DefaultMaxRounds])
    /\ created = NothingCreated
    /\ LibInit

NextCreate ==
    \/ \E t \in TemplatesRequested, r \in RoundsRequested : CreateDebate(t, r)
    \/ \E topic \in BOOLEAN, n \in PositionsRequested, r \in RoundsRequested,
          s \in StrictnessRequested : CreateCustomDebate(topic, n, r, s)
    \/ Tick

SpecCreate == InitCreate /\ [][NextCreate]_vars

\* the creation handlers served one request of each kind they tell apart: a
\* known and an unknown template, with and without a max_rounds override; a
\* custom request with or without a topic, with too few, enough or too many
\* positions, with max_rounds absent or beyond the limit, with
\* moderator_strictness absent or none of the Literal
NextCreateCases ==
    \/ \E t \in {"god_existence", "no_such_template"}, r \in {0, 1} :
          CreateDebate(t, r)
    \/ \E topic \in BOOLEAN, n \in {1, MinDebaters, MaxDebatersLimit + 1},
          r \in {0, MaxRoundsLimit + 1}, s \in {"", "harsh"} :
          CreateCustomDebate(topic, n, r, s)
    \/ Tick

SpecCreateCases == InitCreate /\ [][NextCreateCases]_vars

\* clients join and leave a debate's stream while events are broadcast on it
InitStream ==
    /\ EngineInit
    /\ config.debaters = MinDebaters
    /\ config.max_rounds = 1
    /\ config.allow_rebuttals
    /\ NotifyInit
    /\ rel = RelIdle
    /\ audio = AudioDebate([is_int |-> TRUE, n |-> DefaultMaxRounds])
    /\ created = NothingCreated
    /\ LibInit

NextStream ==
    \/ \E ws \in StreamSockets : StreamAdd(ws)
    \/ \E ws \in StreamSockets : StreamRemove(ws)
    \/ StreamBroadcast
    \/ \E ok \in BOOLEAN : StreamSendDone(ok)

SpecStream == InitStream /\ [][NextStream]_vars

\* DebateConfig constructed from any list of debater ids and any round count
InitConfig ==
    /\ EngineInit
    /\ config.debaters = MinDebaters
    /\ config.max_rounds = 1
    /\ config.allow_rebuttals
    /\ NotifyInit
    /\ rel = RelIdle
    /\ audio = AudioDebate([is_int |-> TRUE, n |-> DefaultMaxRounds])
    /\ created = NothingCreated
    /\ \E ids \in IdLists, r \in {0, 1, MaxRoundsLimit, MaxRoundsLimit + 1} :
           built = [ids |-> ids, max_rounds |-> r, outcome |-> "none"]
    /\ llm = NoGenerator
    /\ stream = StreamIdle
    /\ response = NoResponse

NextConfig == ConstructDebateConfig

SpecConfig == InitConfig /\ [][NextConfig]_vars

\* an LLMArgumentGenerator constructed under any setting of the two keys,
\* then called with any texts while the provider answers or fails
InitLLM ==
    /\ EngineInit
    /\ config.debaters = MinDebaters
    /\ config.max_rounds = 1
    /\ config.allow_rebuttals
    /\ NotifyInit
    /\ rel = RelIdle
    /\ audio = AudioDebate([is_int |-> TRUE, n |-> DefaultMaxRounds])
    /\ created = NothingCreated
    /\ built = NothingBuilt
    /\ \E groq \in ApiKeys, google \in ApiKeys :
           llm = [NoGenerator EXCEPT !.groq_api_key = groq,
                                     !.google_api_key = google]
    /\ stream = StreamIdle
    /\ response = NoResponse

NextLLM ==
    \/ ConstructGenerator
    \/ \E method \in Methods, m \in Mentions, outcome \in ProviderOutcomes :
           \E position \in Positions : Generate(method, position, m, outcome)

SpecLLM == InitLLM /\ [][NextLLM]_vars

\* one of the two servers is running and holds one debate; requests for the
\* debate's id and for an unknown id arrive in any order while runs and
\* cleanup tasks proceed (a run of the two-sided engine between two requests)
InitRequests ==
    /\ config = [debaters |-> MinDebaters, max_rounds |-> 1,
                 allow_rebuttals |-> TRUE, moderator_strictness |-> "moderate"]
    /\ state = InitialState
    /\ events = <<>>
    /\ tasks = <<>>
    /\ cleanups = 0
    /\ stops = 0
    /\ NotifyInit
    /\ rel = RelIdle
    /\ \E server \in {"v2", "audio"} :
           /\ inRegistry = (server = "v2")
           /\ audio = [AudioDebate([is_int |-> TRUE, n |-> DefaultMaxRounds])
                          EXCEPT !.registered = (server = "audio")]
           /\ response = [NoResponse EXCEPT !.server = server]
    /\ created = NothingCreated
    /\ built = NothingBuilt
    /\ llm = NoGenerator
    /\ stream = StreamIdle

NextRequests ==
    \/ \E id \in RequestIds : HandleGetDebate(id)
    \/ \E id \in RequestIds : HandleStartDebate(id)
    \/ \E id \in RequestIds : HandleStopDebate(id)
    \/ \E id \in RequestIds : HandleGetTranscript(id)
    \/ Cleanup
    \/ RunStep
    \/ \E id \in RequestIds : AudioHandleGetDebateStatus(id)
    \/ \E id \in RequestIds : AudioHandleStartDebate(id)
    \/ \E id \in RequestIds : AudioHandleStopDebate(id)
    \/ AudioCleanup
    \/ AudioRunTask

SpecRequests == InitRequests /\ [][NextRequests]_vars

\* the same debate under the scheduling asyncio gives: a run_debate task that
\* can be resumed is resumed (its model call or sleep ends), and a cleanup()
\* task wakes from its sleep; requests arrive or not as the clients please
Fairness == WF_vars(RunStep) /\ WF_vars(Cleanup)

SpecFair == Init /\ [][Next]_vars /\ Fairness

\* one of the two servers is running and holds one debate (on the audio
\* server with any max_rounds); start requests (and, on DebateServerV2, stop
\* requests) arrive or not, and every run_debate task created is resumed
\* whenever it can be: the collaborator call or sleep it awaits returns or raises
InitRuns ==
    /\ state = InitialState
    /\ events = <<>>
    /\ tasks = <<>>
    /\ cleanups = 0
    /\ stops = 0
    /\ NotifyInit
    /\ rel = RelIdle
    /\ \/ /\ inRegistry = TRUE
          /\ config = [debaters |-> MinDebaters, max_rounds |-> 1,
                       allow_rebuttals |-> TRUE, moderator_strictness |-> "moderate"]
          /\ audio = [AudioDebate([is_int |-> TRUE, n |-> DefaultMaxRounds])
                         EXCEPT !.registered = FALSE]
          /\ response = [NoResponse EXCEPT !.server = "v2"]
       \/ /\ inRegistry = FALSE
          /\ config = [debaters |-> MinDebaters, max_rounds |-> 1,
                       allow_rebuttals |-> TRUE, moderator_strictness |-> "moderate"]
          /\ \E m \in MaxRoundsValues : audio = AudioDebate(m)
          /\ response = [NoResponse EXCEPT !.server = "audio"]
    /\ created = NothingCreated
    /\ built = NothingBuilt
    /\ llm = NoGenerator
    /\ stream = StreamIdle

NextRuns ==
    \/ HandleStartDebate(DebateId)
    \/ HandleStopDebate(DebateId)
    \/ \E t \in 1..MaxRequestRuns : ResumeTask(t)
    \/ AudioHandleStartDebate(DebateId)
    \/ \E t \in 1..MaxRequestRuns : AudioResumeTask(t)

FairRuns ==
    \A t \in 1..MaxRequestRuns :
        WF_vars(ResumeTask(t)) /\ WF_vars(AudioResumeTask(t))

SpecRuns == InitRuns /\ [][NextRuns]_vars /\ FairRuns

\* ================================================================ claims

CountKind(kind) ==
    Cardinality({k \in 1..Len(state.turns) : state.turns[k].kind = kind})

\* the debate was started once and that run_debate has returned
SingleRunCompleted == Len(tasks) = 1 /\ tasks[1].pc = "done"

RebuttalCount == IF config.allow_rebuttals THEN N ELSE 0

FullTurnSet ==
    /\ CountKind("opening") = N
    /\ CountKind("argument") = N * R
    /\ CountKind("rebuttal") = RebuttalCount
    /\ CountKind("closing") = N
    /\ Len(state.turns) = N + N * R + RebuttalCount + N

HasEvent(event_type) == \E k \in 1..Len(events) : events[k].event = event_type

\* C1: when run_debate completes, state.turns holds exactly N opening turns,
\* N*R main-phase turns, N rebuttal turns if rebuttals are allowed (else none)
\* and N closing turns; for N=2, R=1 without rebuttals that is 6 turns.
C1_CompletedDebateTurnCounts == SingleRunCompleted => FullTurnSet

PhaseSuccessor(phase) ==
    CASE phase = "not_started" -> "introduction"
      [] phase = "introduction" -> "opening"
      [] phase = "opening" -> "debate"
      [] phase = "debate" -> IF config.allow_rebuttals THEN "rebuttals" ELSE "closing"
      [] phase = "rebuttals" -> "closing"
      [] phase = "closing" -> "conclusion"
      [] phase = "conclusion" -> "finished"
      [] OTHER -> "none"

\* C2: whenever state.phase changes, it changes to the next phase of the fixed
\* order not_started, introduction, opening, debate, [rebuttals], closing,
\* conclusion, finished; nothing is skipped (but rebuttals when disabled) and
\* no phase is entered again.
C2_PhaseOrder ==
    [][state'.phase # state.phase => state'.phase = PhaseSuccessor(state.phase)]_vars

PreMainPhases == {"not_started", "introduction", "opening"}

C4_AllFallbackDebateCompletes ==
    (SingleRunCompleted /\ ~tasks[1].llm_succeeded) =>
        /\ FullTurnSet
        /\ \A k \in 1..Len(state.turns) : state.turns[k].fallback
        /\ HasEvent("debate_ended")
        /\ ~HasEvent("debate_error")
        /\ ~tasks[1].raised

\* C5: a relevance result whose score is below the threshold of the configured
\* strictness (relaxed 0.3, moderate 0.5, strict 0.7), or that is marked
\* off-topic, leads to a moderator redirect.
C5_RedirectBelowThreshold ==
    (rel.decided
     /\ (\/ ~rel.relevance.is_relevant
         \/ rel.relevance.relevance_score < Threshold(config.moderator_strictness)))
        => rel.redirect

RebuttalTurns == SelectSeq(state.turns, LAMBDA t : t.kind = "rebuttal")

\* C6: the rebuttal phase produces the turns of d_{N-1}, ..., d_0 in that order;
\* the debater at index k > 0 is given d_{k-1} as target and d_0 none.
C6_RebuttalOrderAndTargets ==
    (SingleRunCompleted /\ config.allow_rebuttals) =>
        /\ Len(RebuttalTurns) = N
        /\ \A k \in 1..Len(RebuttalTurns) :
              /\ RebuttalTurns[k].debater = N - k
              /\ RebuttalTurns[k].target = (IF N - k > 0 THEN N - k - 1 ELSE None)

\* C7: once remove_listener(cb) was the last add/remove call for cb, cb is not
\* in the listener list and is invoked for no event emitted after that call.
C7_RemovedListenerGone ==
    \A cb \in Callbacks :
        lastCall[cb].op = "remove" =>
            /\ cb \notin Range(listeners)
            /\ \A k \in 1..Len(received[cb]) : received[cb][k] <= lastCall[cb].at

\* C8: when a notification has returned, every listener that stayed registered
\* throughout it was invoked exactly once with its event, whatever removals
\* happened meanwhile.
C8_NoListenerMissesEvent ==
    notif.outcome = "returned" =>
        \A cb \in notif.stayed : Occurrences(received[cb], notif.event) = 1

\* MultiDebateEngine.run_debate ends by an exception in this step
ErrorCaughtV2 ==
    \A t \in 1..Len(tasks) :
        (tasks[t].pc # "done" /\ tasks'[t].pc = "done" /\ tasks'[t].raised) =>
            /\ Len(events') = Len(events) + 2
            /\ SubSeq(events', 1, Len(events)) = events
            /\ events'[Len(events) + 1].event = "debate_error"
            /\ events'[Len(events) + 1].error # ""
            /\ events'[Len(events) + 2].event = "debate_ended"
            /\ events'[Len(events) + 2].total_turns = Len(state'.turns)
            /\ ~state'.is_active
            /\ state'.phase = "finished"
            /\ Len(state'.turns) >= Len(state.turns)
            /\ SubSeq(state'.turns, 1, Len(state.turns)) = state.turns

\* DebateEngine.run_debate ends by an exception in this step
ErrorCaughtV1 ==
    \A t \in 1..Len(audio.tasks) :
        (audio.tasks[t].pc # "done" /\ audio'.tasks[t].pc = "done"
         /\ audio'.tasks[t].raised) =>
            /\ Len(audio'.events) >= Len(audio.events) + 2
            /\ SubSeq(audio'.events, 1, Len(audio.events)) = audio.events
            /\ audio'.events[Len(audio.events) + 1].event = "debate_error"
            /\ audio'.events[Len(audio.events) + 1].error # ""
            /\ audio'.events[Len(audio.events) + 2].event = "debate_ended"
            /\ audio'.events[Len(audio.events) + 2].total_turns
                   = Len(audio'.engine.history)
            /\ ~audio'.engine.is_active
            /\ Len(audio'.engine.history) >= Len(audio.engine.history)
            /\ SubSeq(audio'.engine.history, 1, Len(audio.engine.history))
                   = audio.engine.history

\* C9: when a phase of run_debate raises, in either engine, the run emits
\* debate_error with the message and then debate_ended with total_turns equal
\* to the number of turns recorded, leaves is_active false (and, in the engine
\* that has one, the phase finished), and keeps every turn recorded before.
C9_ErrorCaughtAtTop == [][ErrorCaughtV2 /\ ErrorCaughtV1]_vars

\* the same for MultiDebateEngine alone
ErrorCaughtAtTopV2 == [][ErrorCaughtV2]_vars

\* a MultiDebateEngine run ended by an exception, its error and end events emitted
ErrorCaughtV2Reached ==
    /\ Len(tasks) >= 1
    /\ tasks[1].pc = "done"
    /\ tasks[1].raised
    /\ HasEvent("debate_error")
    /\ HasEvent("debate_ended")

Checkpoints ==
    {"intro_spoken", "open_paused", "main_paused", "rebut_paused", "close_paused"}

\* C11: when a stop request has set is_active to false and a run is suspended
\* at a checkpoint between turns, the run stops there: resumed, it appends no
\* turn, starts no further phase and emits nothing but its debate_ended.
C11_StopHaltsRun ==
    [][\A t \in 1..Len(tasks) :
          (/\ stops > 0
           /\ ~state.is_active
           /\ tasks[t].pc \in Checkpoints
           /\ tasks'[t] # tasks[t]) =>
              /\ state'.turns = state.turns
              /\ tasks'[t].pc = "done"
              /\ ~tasks'[t].raised
              /\ \A k \in (Len(events) + 1)..Len(events') :
                    events'[k].event = "debate_ended"]_vars

\* run_debate executions in progress: started by the event loop, not yet returned
RunsInProgress == {t \in 1..Len(tasks) : tasks[t].pc \notin {"start", "done"}}

\* C12: under any interleaving of start and stop requests with a run in
\* progress, at most one run_debate execution of the engine is in progress.
C12_SingleRunInProgress == Cardinality(RunsInProgress) <= 1

\* C13: a debate's configuration never changes after the debate is created,
\* and creating a debate changes neither the configuration of any existing
\* debate nor a stored template.
C13_ConfigNeverShared ==
    [][/\ \A k \in 1..Len(created.engines) : ConfigOf(created', k) = ConfigOf(created, k)
       /\ created'.templates = created.templates]_vars

\* models.py: DebateState.phase is a Literal of these values
DeclaredPhases ==
    {"not_started", "introduction", "debate", "rebuttals", "closing", "finished"}

\* C19: in every reachable state of a debate, state.phase is one of the
\* declared values not_started, introduction, debate, rebuttals, closing,
\* finished.
C19_PhaseDeclared == state.phase \in DeclaredPhases

\* C20: every moderator action the engine emits has an action type among
\* introduce, transition, redirect, summarize, conclude, and no run fails
\* because it builds a moderator action of another type.
C20_ActionTypesValid ==
    /\ \A k \in 1..Len(events) :
          events[k].event = "moderator_action" => events[k].action_type \in ActionTypes
    /\ \A t \in 1..Len(tasks) : ~tasks[t].raised

CountEvents(event_type) ==
    Cardinality({k \in 1..Len(events) : events[k].event = event_type})

CountActions(action_type) ==
    Cardinality({k \in 1..Len(events) :
                    /\ events[k].event = "moderator_action"
                    /\ events[k].action_type = action_type})

\* C16: moderator messages are never recorded as turns (every turn is a
\* debater's and came with its own turn_completed), and a completed debate has
\* emitted exactly one introducing and exactly one concluding moderator action.
C16_ModeratorNotInTurns ==
    /\ Len(state.turns) = CountEvents("turn_completed")
    /\ \A k \in 1..Len(state.turns) : state.turns[k].debater \in 0..(N - 1)
    /\ SingleRunCompleted =>
          /\ CountActions("introduce") = 1
          /\ CountActions("conclude") = 1

\* the moderator actions _round_summary emits
RoundSummaries ==
    {k \in 1..Len(events) :
        /\ events[k].event = "moderator_action"
        /\ events[k].action_type \in {"round_summary", "summarize", "transition"}
        /\ \E j \in 1..(k - 1) : events[j].event = "round_start"
        /\ \E j \in (k + 1)..Len(events) : events[j].event = "round_start"}

\* C17: a completed debate of R rounds has emitted exactly R-1 between-round
\* moderator transitions, each after the turns of a round r < R and directly
\* before the round_start of round r+1, and none after round R.
C17_BetweenRoundTransitions ==
    SingleRunCompleted =>
        /\ Cardinality(RoundSummaries) = R - 1
        /\ \A k \in RoundSummaries :
              /\ events[k + 1].event = "round_start"
              /\ \E j \in 1..(k - 1) :
                    /\ events[j].event = "turn_completed"
                    /\ events[j].round + 1 = events[k + 1].round
                    /\ \A m \in (j + 1)..(k - 1) :
                          events[m].event \notin {"turn_completed", "round_start"}

\* C15: when the relevance check fails, the argument is treated as relevant:
\* its turn is recorded and no moderator redirect is decided for it, under
\* every strictness setting.
C15_RelevanceFailOpen ==
    (rel.decided /\ rel.relevance.failed) =>
        /\ ~rel.redirect
        /\ Len(state.turns) = 1
        /\ state.turns[1].relevance.is_relevant
        /\ events[Len(events)].event = "turn_completed"

\* C15 witness: the check failed under strict moderation and the turn is there
C15_Witness ==
    /\ rel.decided
    /\ ~rel.input.ok
    /\ rel.relevance.failed
    /\ config.moderator_strictness = "strict"
    /\ Len(state.turns) = 1
    /\ ~rel.redirect

\* C14: state.turns is append-only: every step leaves it unchanged or appends
\* exactly one turn at the end, so existing turns are never removed, reordered
\* or modified and the order of the list is the order of recording.
C14_TurnsAppendOnly ==
    [][\/ state'.turns = state.turns
       \/ /\ Len(state'.turns) = Len(state.turns) + 1
          /\ SubSeq(state'.turns, 1, Len(state.turns)) = state.turns]_vars

\* C14 witness: two different turns recorded one after the other
C14_Witness ==
    /\ Len(state.turns) = 2
    /\ state.turns[1] # state.turns[2]
    /\ Len(events) = 2

\* cb was registered before the first event and never removed or added since
RegisteredThroughout(cb) == lastCall[cb].op = "add" /\ lastCall[cb].at = 0

\* C18: recording a turn appends one turn and delivers one turn_completed event
\* for it to each registered listener: once the turn is completed, a listener
\* registered throughout has received as many turn_completed events as the
\* history is long, and each event carries the turn's has_audio flag.
C18_TurnCompletedPerListener ==
    ~notif.active =>
        /\ Len(state.turns) = emitted
        /\ \A k \in 1..Len(state.turns) :
              /\ events[k].event = "turn_completed"
              /\ events[k].has_audio = state.turns[k].audio_generated
        /\ \A cb \in Callbacks :
              RegisteredThroughout(cb) => Len(received[cb]) = Len(state.turns)

\* C21: every registered debate's config.max_rounds lies within 1..10,
\* whatever max_rounds value the create request supplied; a request with a
\* value outside the bound registers no debate with that value.
C21_MaxRoundsBounded ==
    \A k \in 1..Len(created.engines) :
        /\ ConfigOf(created, k).max_rounds >= 1
        /\ ConfigOf(created, k).max_rounds <= MaxRoundsLimit

\* C22: every DebateConfig that is accepted has between 2 and 6 debaters whose
\* ids are pairwise distinct; a config with two debaters sharing an id is
\* rejected.
C22_DebaterIdsUnique ==
    built.outcome = "accepted" =>
        /\ Len(built.ids) >= 2
        /\ Len(built.ids) <= 6
        /\ \A i, j \in 1..Len(built.ids) : i # j => built.ids[i] # built.ids[j]

\* the provider call of the last generation failed
GenerationFailed == llm.last.outcome \notin {"none", "text"}

\* C26: LLMArgumentGenerator never surfaces a generation failure: under every
\* provider and every failure of the provider call (error status, connection
\* failure, timeout, empty response) the four generate_* methods return the
\* non-empty fallback string of the prompt instead of raising.
C26_GenerationNeverFails ==
    GenerationFailed =>
        /\ ~llm.last.raised
        /\ llm.last.text # ""
        /\ llm.last.text = FallbackResponse(llm.last.prompt)

\* C27: the provider is groq whenever a non-empty Groq key is set (whatever
\* the Google key), otherwise google when a non-empty Google key is set,
\* otherwise ollama.
C27_ProviderPriority ==
    llm.provider # "none" =>
        llm.provider =
            (IF llm.groq_api_key \notin {"unset", ""} THEN "groq"
             ELSE IF llm.google_api_key \notin {"unset", ""} THEN "google"
             ELSE "ollama")

\* C27 witness: both keys are set and the generator uses groq
C27_Witness ==
    /\ llm.groq_api_key = "key"
    /\ llm.google_api_key = "key"
    /\ llm.provider = "groq"

\* the events a step adds to the stream
NewEvents == {k \in 1..Len(events') : k > Len(events)}

\* C23: every phase transition of a debate (into introduction, opening,
\* debate, rebuttals, closing, conclusion and finished) is announced by a
\* phase_change event naming the new phase.
C23_PhaseChangeAnnounced ==
    [][state'.phase # state.phase =>
          \E k \in NewEvents :
              /\ events'[k].event = "phase_change"
              /\ events'[k].phase = state'.phase]_vars

\* the events the claim names
EngineEventKinds ==
    {"turn_completed", "moderator_action", "speaker_change", "round_start",
     "phase_change", "debate_error", "debate_ended"}

\* every engine event MultiDebateEngine has handed to its listeners names the debate
EventsCarryDebateIdV2 ==
    \A k \in 1..Len(events) :
        events[k].event \in EngineEventKinds => events[k].debate_id = DebateId

\* C24: every event delivered to a listener (turn_completed, moderator_action,
\* speaker_change, round_start, phase_change, debate_error, debate_ended), by
\* either engine, carries the id of the debate it belongs to.
C24_EventsCarryDebateId ==
    /\ EventsCarryDebateIdV2
    /\ \A k \in 1..Len(audio.events) :
          audio.events[k].event \in EngineEventKinds =>
              audio.events[k].debate_id = DebateId

\* the step serves a request
RequestServed == response'.parity # response.parity

\* the id the request served names is in the registry of the server serving it
NamesRegisteredDebate ==
    /\ response'.debate_id = DebateId
    /\ \/ response'.server = "v2" /\ inRegistry
       \/ response'.server = "audio" /\ audio.registered

\* C25: a status, start, stop or transcript request that names a debate id
\* not in the server's registry is answered 404 and changes nothing: the
\* registry, every debate's state and stream, and the run and cleanup tasks
\* stay as they are.
C25_UnknownIdChangesNothing ==
    [][(RequestServed
        /\ response'.request \in {"status", "start", "stop", "transcript"}
        /\ ~NamesRegisteredDebate) =>
           /\ response'.status = 404
           /\ UNCHANGED <<config, state, events, tasks, inRegistry, cleanups,
                          stops, audio, created>>]_vars

\* C25 witness: the debate was removed by its cleanup task while a run was
\* still in progress, and a stop request for it has just been answered 404
C25_Witness ==
    /\ response.server = "v2"
    /\ response.request = "stop"
    /\ response.debate_id = DebateId
    /\ response.status = 404
    /\ ~inRegistry
    /\ \E t \in 1..Len(tasks) : tasks[t].pc \notin {"start", "done"}

\* C28: a moderator redirect is decided for a main-phase turn only if the
\* turn's relevance score is below the threshold of the configured strictness
\* (relaxed 0.3, moderate 0.5, strict 0.7) or the check marked it off-topic;
\* under relaxed strictness a relevant turn scoring in [0.3, 0.5) gets none.
C28_RedirectOnlyBelowThreshold ==
    (rel.decided /\ rel.redirect) =>
        \/ ~rel.relevance.is_relevant
        \/ rel.relevance.relevance_score < Threshold(config.moderator_strictness)

\* the positions in state.turns of the main-phase arguments
ArgumentPositions == {k \in 1..Len(state.turns) : state.turns[k].kind = "argument"}

\* C29: a completed debate has its N*R main-phase arguments; every argument
\* of round 2 and later was generated as a rebuttal whose target is the
\* debater of the immediately preceding turn in state.turns, the arguments of
\* round 1 were not generated as rebuttals, and no debater was given itself
\* as target.
C29_LaterRoundsRebutPreviousSpeaker ==
    SingleRunCompleted =>
        /\ Cardinality(ArgumentPositions) = N * R
        /\ \A k \in ArgumentPositions :
              /\ state.turns[k].round_number >= 2 =>
                    /\ state.turns[k].is_rebuttal
                    /\ k > 1
                    /\ state.turns[k].target = state.turns[k - 1].debater
              /\ state.turns[k].round_number = 1 => ~state.turns[k].is_rebuttal
              /\ state.turns[k].target # state.turns[k].debater

ClosingTurns == SelectSeq(state.turns, LAMBDA t : t.kind = "closing")

\* C30: in the closing phase of a completed debate the debaters speak in
\* configured order, and the history given to the closing generator for
\* debater d is exactly the turns d recorded before, in order, and no turn of
\* another debater.
C30_ClosingUsesOwnTurns ==
    SingleRunCompleted =>
        /\ Len(ClosingTurns) = N
        /\ \A d \in 1..Len(ClosingTurns) : ClosingTurns[d].debater = d - 1
        /\ \A k \in 1..Len(state.turns) :
              state.turns[k].kind = "closing" =>
                  /\ \A j \in 1..Len(state.turns[k].history) :
                        /\ state.turns[k].history[j] < k
                        /\ state.turns[state.turns[k].history[j]].debater
                               = state.turns[k].debater
                        /\ j > 1 => state.turns[k].history[j - 1]
                                        < state.turns[k].history[j]
                  /\ \A m \in 1..(k - 1) :
                        state.turns[m].debater = state.turns[k].debater =>
                            \E j \in 1..Len(state.turns[k].history) :
                                state.turns[k].history[j] = m

\* the positions in the stream of the events of one kind
EventPositions(event_type) ==
    {k \in 1..Len(events) : events[k].event = event_type}

\* the round number _create_turn is given for a turn of each kind
RoundOfKind(kind, round_number) ==
    CASE kind = "opening" -> round_number = 0
      [] kind = "argument" -> round_number \in 1..R
      [] kind = "rebuttal" -> round_number = R + 1
      [] OTHER -> round_number = R + 2

\* C31: the events of a completed run are ordered: each round r of 1..R has
\* its round_start, which precedes every speaker_change and turn_completed of
\* round r; each turn_completed is preceded by the speaker_change of the same
\* debater, with no other turn_completed between the two; the turns of a round
\* are in configured debater order with turn_in_round equal to the debater's
\* index; and the recorded round numbers are 0 for openings, r for main round
\* r, R+1 for rebuttals and R+2 for closings.
C31_EventOrder ==
    SingleRunCompleted =>
        /\ \A r \in 1..R :
              \E k \in EventPositions("round_start") : events[k].round = r
        /\ \A k \in EventPositions("speaker_change") \cup EventPositions("turn_completed") :
              events[k].round \in 1..R =>
                  \E j \in 1..(k - 1) :
                      /\ events[j].event = "round_start"
                      /\ events[j].round = events[k].round
        /\ \A k \in EventPositions("turn_completed") :
              \E j \in 1..(k - 1) :
                  /\ events[j].event = "speaker_change"
                  /\ events[j].speaker = events[k].speaker
                  /\ \A m \in (j + 1)..(k - 1) : events[m].event # "turn_completed"
        /\ \A k \in 1..Len(state.turns) :
              /\ state.turns[k].turn_in_round = state.turns[k].debater
              /\ RoundOfKind(state.turns[k].kind, state.turns[k].round_number)
              /\ IF k > 1 /\ state.turns[k - 1].round_number = state.turns[k].round_number
                 THEN state.turns[k].debater = state.turns[k - 1].debater + 1
                 ELSE state.turns[k].debater = 0

\* C32: every debate that has finished or has been stopped is eventually
\* removed from the server's registry, and until then it stays in it: nothing
\* but a cleanup task waking from its delay removes it.
C32_FinishedDebateRemoved ==
    /\ []((state.phase = "finished" \/ stops > 0) => <>(~inRegistry))
    /\ [][(inRegistry /\ ~inRegistry') => cleanups' < cleanups]_vars

\* C33: for every turn of the two-sided engine recorded with audio, the audio
\* server has sent one audio_stream message carrying that turn's audio to the
\* connections joined to the debate, besides the turn_completed event.
C33_AudioStreamPerTurn ==
    LET withAudio == SelectSeq(audio.engine.history, LAMBDA t : t.audio_data)
    IN  /\ Len(audio.streams) = Len(withAudio)
        /\ \A k \in 1..Len(audio.streams) :
              /\ audio.streams[k].agent = withAudio[k].agent
              /\ audio.streams[k].phase = withAudio[k].phase
              /\ audio.streams[k].audio_data
              /\ audio.streams[k].to = audio.joined

\* the events a step adds to the audio server's stream
NewAudioEvents == {k \in 1..Len(audio'.events) : k > Len(audio.events)}

\* a step that resumes a MultiDebateEngine run emits debate_ended only when
\* the run ends, and then once, as the last event, with phase finished and
\* is_active false
RunEndsV2 ==
    \A t \in 1..Len(tasks) :
        tasks'[t] # tasks[t] =>
            LET ended == {k \in NewEvents : events'[k].event = "debate_ended"}
            IN  IF tasks'[t].pc = "done"
                THEN /\ state'.phase = "finished"
                     /\ ~state'.is_active
                     /\ Cardinality(ended) = 1
                     /\ events'[Len(events')].event = "debate_ended"
                ELSE ended = {}

\* the same for a DebateEngine run, whose last event is followed on the
\* stream by the server's own debate_completed message
RunEndsV1(finished) ==
    \A t \in 1..Len(audio.tasks) :
        audio'.tasks[t] # audio.tasks[t] =>
            LET ended == {k \in NewAudioEvents : audio'.events[k].event = "debate_ended"}
            IN  IF audio'.tasks[t].pc = "done"
                THEN /\ finished => audio'.engine.current_phase = "finished"
                     /\ ~audio'.engine.is_active
                     /\ Cardinality(ended) = 1
                     /\ \A k \in NewAudioEvents : \A j \in ended :
                           audio'.events[k].event \in EngineEventKinds => k <= j
                ELSE ended = {}

\* every run_debate task created comes to its end
RunsTerminate ==
    \A t \in 1..MaxRequestRuns :
        /\ [](Len(tasks) >= t => <>(Len(tasks) >= t /\ tasks[t].pc = "done"))
        /\ [](Len(audio.tasks) >= t =>
                 <>(Len(audio.tasks) >= t /\ audio.tasks[t].pc = "done"))

\* C34: when no collaborator call, speech synthesis or listener hangs, every
\* started run_debate, of either engine, eventually ends in phase finished
\* with is_active false, having emitted debate_ended exactly once, as the last
\* event of the run.
C34_RunsEndFinished ==
    /\ RunsTerminate
    /\ [][RunEndsV2 /\ RunEndsV1(TRUE)]_vars

\* C34 amended: every started run_debate, of either engine, eventually ends
\* with is_active false, having emitted debate_ended exactly once, as the last
\* event of the run; MultiDebateEngine is then in phase finished, while
\* DebateEngine, which has no such phase, stays in the phase it had reached.
C34_RunsEnd ==
    /\ RunsTerminate
    /\ [][RunEndsV2 /\ RunEndsV1(FALSE)]_vars

\* C34 witness: a DebateEngine run went through all its phases and has ended:
\* the engine is inactive, still in phase conclusion, debate_ended was emitted
C34_Witness ==
    /\ Len(audio.tasks) = 1
    /\ audio.tasks[1].pc = "done"
    /\ ~audio.tasks[1].raised
    /\ ~audio.engine.is_active
    /\ audio.engine.current_phase = "conclusion"
    /\ Len(audio.events) >= 2
    /\ audio.events[Len(audio.events) - 1].event = "debate_ended"


\* C35: two debates created on the same server never carry the same debate id:
\* no two engines share an id, every engine created is still the one the
\* registry holds under its id, and no engine broadcasts its events on the
\* stream of another engine's debate id
C35_DebateIdsUnique ==
    \A j, k \in 1..Len(created.engines) :
        /\ created.debates[created.engines[k].debate_id] = k
        /\ j # k =>
            /\ created.engines[j].debate_id # created.engines[k].debate_id
            /\ \A i \in 1..Len(created.engines[j].listeners) :
                   created.engines[j].listeners[i] # created.engines[k].debate_id

\* C38: a create request answered with an error leaves the server as it was:
\* the registry, the engines with their listeners and configurations, and the
\* templates are all unchanged by the step that serves it
C38_FailedCreateChangesNothing ==
    [][(/\ response'.parity # response.parity
        /\ response'.request \in {"create", "create_custom"}
        /\ response'.status # 200) => created' = created]_vars

\* a custom create request is refused with 500 and a template one with 500
\* while a debate created before is registered
C38_Witness ==
    /\ response.request = "create_custom"
    /\ response.status = 500
    /\ Len(created.engines) >= 1
    /\ DOMAIN created.debates # {}

\* C36: when a broadcast ends, every connection joined to the debate from
\* its beginning to its end has been sent the message, or its send failed
\* and it is no longer in the stream
C36_BroadcastReachesAll ==
    [][(stream.outcome = "running" /\ stream'.outcome # "running") =>
          \A ws \in stream'.stayed :
              \/ ws \in stream'.delivered
              \/ ws \in stream'.dead /\ ws \notin stream'.connections]_vars


\* how far a status of DebateAudioServer lies along created, running, ended
StatusRank(status) ==
    CASE status = "created" -> 0
      [] status = "running" -> 1
      [] OTHER -> 2

\* C37: while a debate of the v1 server is registered its status never moves
\* back along created, running, {completed, error, stopped}, and a status of
\* stopped stays stopped
C37_StatusOnlyForward ==
    [][(audio.registered /\ audio'.registered) =>
          /\ StatusRank(audio'.status) >= StatusRank(audio.status)
          /\ audio.status = "stopped" => audio'.status = "stopped"]_vars

\* the rounds a run of DebateEngine goes through: max_rounds of them, none
\* for a negative max_rounds
RoundsRun == IF audio.engine.max_rounds.n < 0 THEN 0 ELSE audio.engine.max_rounds.n

\* the speakers and phases of the rounds 1..r, an interjection after each even one
RECURSIVE RoundTurns(_)
RoundTurns(r) ==
    IF r = 0 THEN <<>>
    ELSE RoundTurns(r - 1)
         \o <<<<"pro", "main_arguments">>, <<"con", "main_arguments">>>>
         \o (IF r % 2 = 0 THEN <<<<"moderator", "main_arguments">>>> ELSE <<>>)

\* the speakers and phases of a whole debate of r rounds
DebateTurns(r) ==
    <<<<"moderator", "introduction">>,
      <<"pro", "opening_statements">>, <<"con", "opening_statements">>>>
    \o RoundTurns(r)
    \o <<<<"con", "rebuttals">>, <<"pro", "rebuttals">>,
         <<"pro", "closing_statements">>, <<"con", "closing_statements">>,
         <<"moderator", "conclusion">>>>

\* speaker and phase of the turns from..to of engine.history
HistoryTurns(from, to) ==
    [k \in 1..(to - from + 1) |->
        <<audio.engine.history[from + k - 1].agent,
          audio.engine.history[from + k - 1].phase>>]

\* C39: every complete run of DebateEngine (one that left run_debate's try
\* block without an exception) has recorded the turns of a debate of R rounds,
\* in order: 8 + 2R + floor(R/2) of them, the t-th run of an engine after those
\* of the runs before it; current_round is R when the last run is over
C39_TurnSequenceV1 ==
    \A t \in 1..Len(audio.tasks) :
        (audio.tasks[t].pc = "done" /\ ~audio.tasks[t].raised) =>
            LET rounds == RoundsRun
                n == 8 + 2 * rounds + (rounds \div 2)
            IN  /\ Len(DebateTurns(rounds)) = n
                /\ Len(audio.engine.history) >= t * n
                /\ HistoryTurns((t - 1) * n + 1, t * n) = DebateTurns(rounds)
                /\ t = Len(audio.tasks) =>
                       /\ Len(audio.engine.history) = t * n
                       /\ audio.engine.current_round = rounds

\* a run of two rounds is over, with its interjection after the second round
C39_Witness ==
    /\ Len(audio.tasks) = 1
    /\ audio.tasks[1].pc = "done"
    /\ ~audio.tasks[1].raised
    /\ audio.engine.max_rounds.n = 2
    /\ Len(audio.engine.history) = 13

\* the fallback sentences _fallback_response returns in its "pro" branches
\* and in its else branches
ProFallbacks ==
    {"I stand firmly in support", "The arguments presented today",
     "Research and real-world evidence"}
ConFallbacks ==
    {"We must carefully examine", "The risks and concerns raised today",
     "We must consider the broader implications"}

\* C40: when the provider call of generate_opening_statement,
\* generate_argument or generate_closing_statement fails and the fallback is
\* returned, it is the con variant for a con-position agent and the pro variant
\* for a pro-position agent
C40_FallbackMatchesSide ==
    (/\ GenerationFailed
     /\ llm.last.text = FallbackResponse(llm.last.prompt)
     /\ llm.last.method \in {"generate_opening_statement", "generate_argument",
                              "generate_closing_statement"}) =>
        /\ llm.last.position = "con" => llm.last.text \in ConFallbacks
        /\ llm.last.position = "pro" => llm.last.text \in ProFallbacks

====
